---- MODULE Spec2Model ----
(***************************************************************************)
(* Private Todo: the main-process storage layer (main.js).                 *)
(*                                                                         *)
(* The state is what the IPC handlers read and write: settings.json,       *)
(* db.json, archive.json, the keychain entry, the in-memory sessionKey and *)
(* the last backup document written by backup:export.  Each IPC handler is *)
(* one action (the UI issues one request at a time).                       *)
(*                                                                         *)
(* Abstractions:                                                           *)
(*  - a key is the pair (passcode, salt) it was derived from by scrypt;    *)
(*  - an AES-GCM payload is the pair (key, plaintext object); decryption   *)
(*    authenticates iff the key is the same (iv and tag are not modelled); *)
(*  - a JSON document on disk is a record with the members the handlers    *)
(*    look at (_enc, projects, tasks);                                     *)
(*  - a string (project name) is a sequence of characters;                 *)
(*  - timestamps come from a logical clock that ticks at every use.        *)
(***************************************************************************)
EXTENDS Integers, Sequences, FiniteSets, TLC

(* ------------------------------ bounds -------------------------------- *)
\* number of salts crypto.randomBytes(16) hands out (all different)
NumSalts == 2
\* number of task ids randId() can return / tasks ever created
MaxTasks == 2
\* number of project ids randId() can return / projects ever created
MaxProjects == 1
\* last value of the logical clock
MaxTime == 3
\* deepest nesting of encrypted payloads kept on disk
MaxWrap == 2
\* archive threshold of the model (main.js uses 2000)
ARCHIVE_THRESHOLD == 1
\* most tags sanitizeTags keeps (main.js uses 20)
TagLimit == 2

(* ------------------------------ inputs -------------------------------- *)
\* passcodes the user may type
Secrets == {"abcd", "wxyz"}
\* no passcode given (null or empty string: !passcode)
NoPass == ""
NoSalt == 0

(* ------------------------------- keys --------------------------------- *)
NoKey == [pass |-> NoPass, salt |-> NoSalt]

\* scrypt(pass, salt): deterministic in both arguments
deriveKey(pass, s) == [pass |-> pass, salt |-> s.salt]

(* --------------------------- JSON documents --------------------------- *)
\* no file / null
NoObj == [none |-> TRUE]
Absent == NoObj

Obj(enc, key, inner, hp, ps, ht, ts) ==
    [enc |-> enc, key |-> key, inner |-> inner,
     hasProjects |-> hp, projects |-> ps, hasTasks |-> ht, tasks |-> ts]

\* a plaintext dataset {version, createdAt, projects, tasks}
Dataset(ps, ts) == Obj(FALSE, NoKey, NoObj, TRUE, ps, TRUE, ts)

\* the project id 'inbox'; the other ids are the numbers randId() hands out
inbox == 0
\* a request without projectId / without a patch for it
NoProject == -1

\* 'Inbox'
InboxName == <<"I">>
defaultDB == Dataset(<<[id |-> inbox, name |-> InboxName]>>, <<>>)

defaultSettings == [encryptionEnabled |-> FALSE, useBiometrics |-> FALSE, salt |-> NoSalt]

\* {_enc: true, algo, iv, tag, data}
encryptPayload(obj, key) == Obj(TRUE, key, obj, FALSE, <<>>, FALSE, <<>>)

\* createDecipheriv/final(): the GCM tag verifies only under the same key
AuthOk(payload, key) == payload.key = key
decryptPayload(payload, key) == payload.inner

RECURSIVE Depth(_)
Depth(o) == IF o = NoObj \/ ~o.enc THEN 0 ELSE 1 + Depth(o.inner)

(* ------------------------------- state -------------------------------- *)
VARIABLES
    settings,     \* settings.json
    dbFile,       \* db.json
    archiveFile,  \* archive.json (Absent until first written)
    sessionKey,   \* let sessionKey
    keychain,     \* keytar entry PrivateTodo/encryption-key
    bioAvail,     \* biometricsAvailable() on this machine
    backup,       \* the last file written by backup:export
    nextTask,     \* ids handed out by randId() for tasks
    nextProj,     \* ids handed out by randId() for projects
    nextSalt,     \* values handed out by crypto.randomBytes(16)
    now,          \* logical clock (new Date())
    userSecret,   \* passcode of the security:enable in force (history)
    aw,           \* the call of atomicWrite(dbPath, ...) in progress
    calls         \* the calls of task handlers in progress, each at an await

vars == <<settings, dbFile, archiveFile, sessionKey, keychain, bioAvail,
          backup, nextTask, nextProj, nextSalt, now, userSecret, aw, calls>>

\* the handlers of two requests may be in progress at a time
Slots == {1, 2}
\* no call in progress
NoCall == [pc |-> "idle", kind |-> "none", id |-> 0, s |-> NoObj, db |-> NoObj,
           arc |-> NoObj, out |-> NoObj]

\* no call of atomicWrite in progress, no temp file
AwIdle == [pc |-> "idle", tmp |-> NoObj, contents |-> NoObj, old |-> NoObj,
          cleanup |-> "none"]

\* a file that is not a backup document (no version, no blob)
NoBackup == [version |-> 0, encryptionEnabled |-> FALSE, current |-> NoObj, archive |-> NoObj]


(* ---------------------------- file helpers ---------------------------- *)
Result(st, val) == [st |-> st, val |-> val]

\* readJSONFile without its `if (!sessionKey)` test: the key is used unchecked
readJSONFileNoKeyTest(file, encrypted, key) ==
    IF file = Absent THEN Result("null", NoObj)
    ELSE IF encrypted
         THEN IF ~file.enc THEN Result("Expected encrypted file", NoObj)
              ELSE IF ~AuthOk(file, key) THEN Result("auth", NoObj)
              ELSE Result("ok", decryptPayload(file, key))
         ELSE Result("ok", file)

readJSONFile(file, encrypted, key) ==
    IF file = Absent THEN Result("null", NoObj)
    ELSE IF encrypted
         THEN IF ~file.enc THEN Result("Expected encrypted file", NoObj)
              ELSE IF key = NoKey THEN Result("Locked: no session key", NoObj)
              ELSE IF ~AuthOk(file, key) THEN Result("auth", NoObj)
              ELSE Result("ok", decryptPayload(file, key))
         ELSE Result("ok", file)

\* the contents writeJSONFile puts in the file; needs a key when encrypted
writeJSONFile(data, encrypted, key) ==
    IF encrypted THEN encryptPayload(data, key) ELSE data

(* ------------------------------ strings ------------------------------- *)
\* String.prototype.trim on a sequence of characters
RECURSIVE trimStart(_)
trimStart(str) == IF str # <<>> /\ Head(str) = " " THEN trimStart(Tail(str)) ELSE str
RECURSIVE trimEnd(_)
trimEnd(str) ==
    IF str # <<>> /\ str[Len(str)] = " " THEN trimEnd(SubSeq(str, 1, Len(str) - 1)) ELSE str
trim(str) == trimEnd(trimStart(str))

\* String.prototype.toLowerCase
lowerChar(c) == CASE c = "I" -> "i" [] c = "W" -> "w" [] OTHER -> c
toLowerCase(str) == [i \in 1..Len(str) |-> lowerChar(str[i])]

(* ------------------------- DB merge & archive ------------------------- *)
NoDate == 0

\* the merge that keeps the first entry of an id: the one of the archive
RECURSIVE projMapFirst(_, _)
projMapFirst(list, i) ==
    IF i > Len(list) THEN <<>>
    ELSE IF \E j \in 1..(i - 1) : list[j].id = list[i].id
         THEN projMapFirst(list, i + 1)
         ELSE <<list[i]>> \o projMapFirst(list, i + 1)

\* new Map(list.map(p => [p.id, p])).values(): one entry per id, at the place
\* of the first occurrence, holding the last occurrence
RECURSIVE projMap(_, _)
projMap(list, i) ==
    IF i > Len(list) THEN <<>>
    ELSE IF \E j \in 1..(i - 1) : list[j].id = list[i].id
         THEN projMap(list, i + 1)
         ELSE LET last == CHOOSE j \in i..Len(list) :
                              /\ list[j].id = list[i].id
                              /\ \A k \in (j + 1)..Len(list) : list[k].id # list[i].id
              IN  <<list[last]>> \o projMap(list, i + 1)

Merged(st, cur, arc) ==
    [st |-> st, current |-> cur, archive |-> arc,
     projects |-> IF st = "ok" THEN projMap(arc.projects \o cur.projects, 1) ELSE <<>>,
     tasks |-> IF st = "ok" THEN cur.tasks \o arc.tasks ELSE <<>>]

loadAllData(s, db, arcFile, key) ==
    LET enc == s.encryptionEnabled
        rc  == readJSONFile(db, enc, key)
        current == IF rc.st = "null" THEN defaultDB ELSE rc.val
        ra  == IF arcFile # Absent THEN readJSONFile(arcFile, enc, key)
               ELSE Result("ok", Dataset(<<>>, <<>>))
    IN  IF rc.st \notin {"ok", "null"} THEN Merged(rc.st, NoObj, NoObj)
        ELSE IF ra.st # "ok" THEN Merged(ra.st, NoObj, NoObj)
        ELSE Merged("ok", current, ra.val)

\* a.dateCompleted || a.createdAt
sortKey(t) == IF t.dateCompleted # NoDate THEN t.dateCompleted ELSE t.createdAt

\* Array.prototype.sort is stable: insert behind the elements that are not later
RECURSIVE insertSorted(_, _)
insertSorted(sorted, t) ==
    IF sorted = <<>> THEN <<t>>
    ELSE IF sortKey(Head(sorted)) <= sortKey(t)
         THEN <<Head(sorted)>> \o insertSorted(Tail(sorted), t)
         ELSE <<t>> \o sorted
RECURSIVE sortByDate(_)
sortByDate(list) ==
    IF list = <<>> THEN <<>>
    ELSE insertSorted(sortByDate(SubSeq(list, 1, Len(list) - 1)), list[Len(list)])

isCompleted(t) == t.completed

\* the migration without the sort: the first completed tasks of the list move
migrateUnsorted(current, archive) ==
    IF Len(current.tasks) > ARCHIVE_THRESHOLD
    THEN LET overflow  == Len(current.tasks) - ARCHIVE_THRESHOLD
             completed == SelectSeq(current.tasks, isCompleted)
             toMove    == SubSeq(completed, 1, IF overflow < Len(completed)
                                               THEN overflow ELSE Len(completed))
             moveIds   == {toMove[i].id : i \in 1..Len(toMove)}
             keep(t)   == t.id \notin moveIds
         IN  IF toMove # <<>>
             THEN [current |-> [current EXCEPT !.tasks = SelectSeq(current.tasks, keep)],
                   archive |-> [archive EXCEPT !.hasTasks = TRUE,
                                               !.tasks = archive.tasks \o toMove]]
             ELSE [current |-> current, archive |-> archive]
    ELSE [current |-> current, archive |-> archive]

\* the migration that starts at the threshold and keeps one task fewer
migrateAtThreshold(current, archive) ==
    IF Len(current.tasks) >= ARCHIVE_THRESHOLD
    THEN LET overflow  == Len(current.tasks) - ARCHIVE_THRESHOLD + 1
             completed == sortByDate(SelectSeq(current.tasks, isCompleted))
             toMove    == SubSeq(completed, 1, IF overflow < Len(completed)
                                               THEN overflow ELSE Len(completed))
             moveIds   == {toMove[i].id : i \in 1..Len(toMove)}
             keep(t)   == t.id \notin moveIds
         IN  IF toMove # <<>>
             THEN [current |-> [current EXCEPT !.tasks = SelectSeq(current.tasks, keep)],
                   archive |-> [archive EXCEPT !.hasTasks = TRUE,
                                               !.tasks = archive.tasks \o toMove]]
             ELSE [current |-> current, archive |-> archive]
    ELSE [current |-> current, archive |-> archive]

\* the migration that takes the tasks out of db.json and appends none
migrateDropsMoved(current, archive) ==
    IF Len(current.tasks) > ARCHIVE_THRESHOLD
    THEN LET overflow  == Len(current.tasks) - ARCHIVE_THRESHOLD
             completed == sortByDate(SelectSeq(current.tasks, isCompleted))
             toMove    == SubSeq(completed, 1, IF overflow < Len(completed)
                                               THEN overflow ELSE Len(completed))
             moveIds   == {toMove[i].id : i \in 1..Len(toMove)}
             keep(t)   == t.id \notin moveIds
         IN  IF toMove # <<>>
             THEN [current |-> [current EXCEPT !.tasks = SelectSeq(current.tasks, keep)],
                   archive |-> [archive EXCEPT !.hasTasks = TRUE]]
             ELSE [current |-> current, archive |-> archive]
    ELSE [current |-> current, archive |-> archive]

\* the archive migration of saveCurrentAndMaybeArchive: the datasets to write
migrate(current, archive) ==
    IF Len(current.tasks) > ARCHIVE_THRESHOLD
    THEN LET overflow  == Len(current.tasks) - ARCHIVE_THRESHOLD
             completed == sortByDate(SelectSeq(current.tasks, isCompleted))
             toMove    == SubSeq(completed, 1, IF overflow < Len(completed)
                                               THEN overflow ELSE Len(completed))
             moveIds   == {toMove[i].id : i \in 1..Len(toMove)}
             keep(t)   == t.id \notin moveIds
         IN  IF toMove # <<>>
             THEN [current |-> [current EXCEPT !.tasks = SelectSeq(current.tasks, keep)],
                   archive |-> [archive EXCEPT !.hasTasks = TRUE,
                                               !.tasks = archive.tasks \o toMove]]
             ELSE [current |-> current, archive |-> archive]
    ELSE [current |-> current, archive |-> archive]

\* saveCurrentAndMaybeArchive: the new contents of db.json and archive.json
saveCurrentAndMaybeArchive(s, current, archive, arcFile, key) ==
    LET enc == s.encryptionEnabled
        m   == migrate(current, archive)
    IN  [db |-> writeJSONFile(m.current, enc, key),
         archive |-> IF Len(m.archive.tasks) > 0 \/ arcFile # Absent
                     THEN writeJSONFile(m.archive, enc, key)
                     ELSE arcFile]


(* ------------------------------ handlers ------------------------------ *)
\* Each handler is a function of the state st it starts in: the record of
\* what it leaves in the files, the keychain and sessionKey, with its result
\* (res) and the outcome of its keytar call (escrow).
Cur ==
    [settings |-> settings, dbFile |-> dbFile, archiveFile |-> archiveFile,
     sessionKey |-> sessionKey, keychain |-> keychain, res |-> "ok", escrow |-> "none"]

Ok(st) == [st EXCEPT !.res = "ok", !.escrow = "none"]
Throw(st, msg) == [st EXCEPT !.res = msg, !.escrow = "none"]
Failed(st) == st.res \notin {"ok", "ok:biometrics", "ok:passcode"}

\* ensureFiles: creates what is missing
ensureFiles(st) ==
    [st EXCEPT !.settings = IF @ = NoObj THEN defaultSettings ELSE @,
               !.dbFile = IF @ = Absent THEN writeJSONFile(defaultDB, FALSE, NoKey) ELSE @]

\* security:enable that encrypts db.json and forgets archive.json
securityEnableSkipArchive(st, passcode, useBiometrics, salt, storeOk) ==
    IF st.settings.encryptionEnabled THEN Ok(st)
    ELSE LET s0  == [st.settings EXCEPT !.salt = salt]
             key == deriveKey(passcode, s0)
             s1  == [s0 EXCEPT !.encryptionEnabled = TRUE,
                               !.useBiometrics = useBiometrics /\ bioAvail]
             s2  == IF s1.useBiometrics /\ ~storeOk
                    THEN [s1 EXCEPT !.useBiometrics = FALSE] ELSE s1
             currentPlain == IF st.dbFile # Absent THEN st.dbFile ELSE defaultDB
         IN  [st EXCEPT
                !.sessionKey = key,
                !.settings = s2,
                !.keychain = IF s1.useBiometrics /\ storeOk THEN key ELSE @,
                !.dbFile = writeJSONFile(currentPlain, TRUE, key),
                !.res = "ok",
                !.escrow = IF ~s1.useBiometrics THEN "none"
                           ELSE IF storeOk THEN "stored" ELSE "failed"]

\* security:enable whose catch of the keytar failure only logs
securityEnableKeepsFlag(st, passcode, useBiometrics, salt, storeOk) ==
    IF st.settings.encryptionEnabled THEN Ok(st)
    ELSE LET s0  == [st.settings EXCEPT !.salt = salt]
             key == deriveKey(passcode, s0)
             s1  == [s0 EXCEPT !.encryptionEnabled = TRUE,
                               !.useBiometrics = useBiometrics /\ bioAvail]
             currentPlain == IF st.dbFile # Absent THEN st.dbFile ELSE defaultDB
         IN  [st EXCEPT
                !.sessionKey = key,
                !.settings = s1,
                !.keychain = IF s1.useBiometrics /\ storeOk THEN key ELSE @,
                !.dbFile = writeJSONFile(currentPlain, TRUE, key),
                !.archiveFile = IF @ # Absent THEN writeJSONFile(@, TRUE, key) ELSE @,
                !.res = "ok",
                !.escrow = IF ~s1.useBiometrics THEN "none"
                           ELSE IF storeOk THEN "stored" ELSE "failed"]

\* ipcMain.handle('security:enable')
securityEnable(st, passcode, useBiometrics, salt, storeOk) ==
    IF st.settings.encryptionEnabled THEN Ok(st)
    ELSE LET s0  == [st.settings EXCEPT !.salt = salt]
             key == deriveKey(passcode, s0)
             s1  == [s0 EXCEPT !.encryptionEnabled = TRUE,
                               !.useBiometrics = useBiometrics /\ bioAvail]
             s2  == IF s1.useBiometrics /\ ~storeOk
                    THEN [s1 EXCEPT !.useBiometrics = FALSE] ELSE s1
             currentPlain == IF st.dbFile # Absent THEN st.dbFile ELSE defaultDB
         IN  [st EXCEPT
                !.sessionKey = key,
                !.settings = s2,
                !.keychain = IF s1.useBiometrics /\ storeOk THEN key ELSE @,
                !.dbFile = writeJSONFile(currentPlain, TRUE, key),
                !.archiveFile = IF @ # Absent THEN writeJSONFile(@, TRUE, key) ELSE @,
                !.res = "ok",
                !.escrow = IF ~s1.useBiometrics THEN "none"
                           ELSE IF storeOk THEN "stored" ELSE "failed"]

\* security:disable that also forgets the KDF salt
securityDisableClearsSalt(st, delOk) ==
    IF ~st.settings.encryptionEnabled THEN Ok(st)
    ELSE IF st.sessionKey = NoKey THEN Throw(st, "Unlock required to disable encryption")
    ELSE LET rc == readJSONFile(st.dbFile, TRUE, st.sessionKey)
             ra == readJSONFile(st.archiveFile, TRUE, st.sessionKey)
         IN  IF rc.st \notin {"ok", "null"} THEN Throw(st, rc.st)
             ELSE LET st1 == [st EXCEPT !.dbFile = writeJSONFile(rc.val, FALSE, NoKey)]
                  IN  IF st.archiveFile # Absent /\ ra.st # "ok" THEN Throw(st1, ra.st)
                      ELSE [st1 EXCEPT
                              !.archiveFile = IF @ # Absent
                                              THEN writeJSONFile(ra.val, FALSE, NoKey) ELSE @,
                              !.settings = [@ EXCEPT !.encryptionEnabled = FALSE,
                                                     !.useBiometrics = FALSE,
                                                     !.salt = NoSalt],
                              !.keychain = IF delOk THEN NoKey ELSE @,
                              !.sessionKey = NoKey,
                              !.res = "ok",
                              !.escrow = IF delOk THEN "deleted" ELSE "failed"]

\* ipcMain.handle('security:disable')
securityDisable(st, delOk) ==
    IF ~st.settings.encryptionEnabled THEN Ok(st)
    ELSE IF st.sessionKey = NoKey THEN Throw(st, "Unlock required to disable encryption")
    ELSE LET rc == readJSONFile(st.dbFile, TRUE, st.sessionKey)
             ra == readJSONFile(st.archiveFile, TRUE, st.sessionKey)
         IN  IF rc.st \notin {"ok", "null"} THEN Throw(st, rc.st)
             ELSE LET st1 == [st EXCEPT !.dbFile = writeJSONFile(rc.val, FALSE, NoKey)]
                  IN  IF st.archiveFile # Absent /\ ra.st # "ok" THEN Throw(st1, ra.st)
                      ELSE [st1 EXCEPT
                              !.archiveFile = IF @ # Absent
                                              THEN writeJSONFile(ra.val, FALSE, NoKey) ELSE @,
                              !.settings = [@ EXCEPT !.encryptionEnabled = FALSE,
                                                     !.useBiometrics = FALSE],
                              !.keychain = IF delOk THEN NoKey ELSE @,
                              !.sessionKey = NoKey,
                              !.res = "ok",
                              !.escrow = IF delOk THEN "deleted" ELSE "failed"]

\* security:unlock that falls back to the passcode path when the keychain
\* holds no key
securityUnlockFallsBack(st, passcode, bioOk, storeOk) ==
    LET s == st.settings IN
    IF ~s.encryptionEnabled THEN Ok(st)
    ELSE IF passcode = NoPass /\ s.useBiometrics /\ bioAvail /\ bioOk /\ st.keychain # NoKey
         THEN [st EXCEPT !.sessionKey = st.keychain,
                         !.res = "ok:biometrics", !.escrow = "none"]
    ELSE IF passcode = NoPass THEN Throw(st, "NEED_PASSCODE")
    ELSE IF s.salt = NoSalt THEN Throw(st, "Missing KDF salt")
    ELSE LET key == deriveKey(passcode, s)
             reseed == s.useBiometrics /\ bioAvail
         IN  [st EXCEPT
                !.sessionKey = key,
                !.keychain = IF reseed /\ storeOk THEN key ELSE @,
                !.res = "ok:passcode",
                !.escrow = IF ~reseed THEN "none" ELSE IF storeOk THEN "stored" ELSE "failed"]

\* ipcMain.handle('security:unlock'); bioOk: promptTouchID and getPassword
\* did not throw; storeOk: setPassword did not throw
securityUnlock(st, passcode, bioOk, storeOk) ==
    LET s == st.settings IN
    IF ~s.encryptionEnabled THEN Ok(st)
    ELSE IF passcode = NoPass /\ s.useBiometrics /\ bioAvail /\ bioOk
         THEN IF st.keychain # NoKey
              THEN [st EXCEPT !.sessionKey = st.keychain,
                              !.res = "ok:biometrics", !.escrow = "none"]
              ELSE Throw(st, "NO_BIO_KEY")
    ELSE IF passcode = NoPass THEN Throw(st, "NEED_PASSCODE")
    ELSE IF s.salt = NoSalt THEN Throw(st, "Missing KDF salt")
    ELSE LET key == deriveKey(passcode, s)
             reseed == s.useBiometrics /\ bioAvail
         IN  [st EXCEPT
                !.sessionKey = key,
                !.keychain = IF reseed /\ storeOk THEN key ELSE @,
                !.res = "ok:passcode",
                !.escrow = IF ~reseed THEN "none" ELSE IF storeOk THEN "stored" ELSE "failed"]

\* security:lock that answers ok and keeps the key in memory
securityLockKeepsKey(st) == [st EXCEPT !.res = "ok", !.escrow = "none"]

\* ipcMain.handle('security:lock')
securityLock(st) == [st EXCEPT !.sessionKey = NoKey, !.res = "ok", !.escrow = "none"]

\* ipcMain.handle('env:reset')
envReset(st, delOk) ==
    ensureFiles([st EXCEPT !.dbFile = Absent, !.archiveFile = Absent, !.settings = NoObj,
                           !.keychain = IF delOk THEN NoKey ELSE @,
                           !.sessionKey = NoKey,
                           !.res = "ok",
                           !.escrow = IF delOk THEN "deleted" ELSE "failed"])

\* loadAllData(await readSettings()) in st: the merged view, or the error
loadMerged(st) == loadAllData(st.settings, st.dbFile, st.archiveFile, st.sessionKey)

\* ipcMain.handle('db:load')
dbLoad(st) == Throw(st, loadMerged(st).st)

(* ------------------------- projects and tasks ------------------------- *)
\* index of the first element with that id (Array.prototype.find), 0 if none
findIndex(list, id) ==
    IF \E i \in 1..Len(list) : list[i].id = id
    THEN CHOOSE i \in 1..Len(list) :
             list[i].id = id /\ \A j \in 1..(i - 1) : list[j].id # id
    ELSE 0

\* what a handler leaves on disk after saveCurrentAndMaybeArchive(s, merged)
Saved(st, current, archive) ==
    LET w == saveCurrentAndMaybeArchive(st.settings, current, archive,
                                        st.archiveFile, st.sessionKey)
    IN  [st EXCEPT !.dbFile = w.db, !.archiveFile = w.archive,
                   !.res = "ok", !.escrow = "none"]

\* project:add that compares the names as they are written
projectAddCaseSensitive(st, name, id) ==
    LET m  == loadMerged(st)
        nm == trim(name)
        all == m.current.projects \o m.archive.projects
    IN  IF m.st # "ok" THEN Throw(st, m.st)
        ELSE IF nm = <<>> THEN Throw(st, "Project name required")
        ELSE IF \E i \in 1..Len(all) : all[i].name = nm
             THEN Throw(st, "A project with that name already exists")
        ELSE Saved(st, [m.current EXCEPT !.hasProjects = TRUE,
                                         !.projects = @ \o <<[id |-> id, name |-> nm]>>],
                   m.archive)

\* ipcMain.handle('project:add'); id: the value of randId()
projectAdd(st, name, id) ==
    LET m  == loadMerged(st)
        nm == trim(name)
        all == m.current.projects \o m.archive.projects
    IN  IF m.st # "ok" THEN Throw(st, m.st)
        ELSE IF nm = <<>> THEN Throw(st, "Project name required")
        ELSE IF \E i \in 1..Len(all) : toLowerCase(all[i].name) = toLowerCase(nm)
             THEN Throw(st, "A project with that name already exists")
        ELSE Saved(st, [m.current EXCEPT !.hasProjects = TRUE,
                                         !.projects = @ \o <<[id |-> id, name |-> nm]>>],
                   m.archive)

\* ipcMain.handle('project:rename')
projectRename(st, id, name) ==
    LET m == loadMerged(st) IN
    IF m.st # "ok" THEN Throw(st, m.st)
    ELSE IF ~m.current.hasProjects THEN Throw(st, "TypeError")
    ELSE LET ic == findIndex(m.current.projects, id)
             ia == findIndex(m.archive.projects, id)
         IN  IF ic # 0
             THEN Saved(st, [m.current EXCEPT !.projects[ic].name = name], m.archive)
             ELSE IF ia # 0
             THEN Saved(st, m.current, [m.archive EXCEPT !.projects[ia].name = name])
             ELSE Throw(st, "Project not found")

toInbox(tasks, id) ==
    [i \in 1..Len(tasks) |->
        IF tasks[i].projectId = id THEN [tasks[i] EXCEPT !.projectId = inbox] ELSE tasks[i]]

\* project:delete without the test for 'inbox'
projectDeleteAny(st, id) ==
    LET m == loadMerged(st)
        other(p) == p.id # id
    IN  IF m.st # "ok" THEN Throw(st, m.st)
        ELSE IF ~m.current.hasTasks \/ ~m.archive.hasTasks \/ ~m.current.hasProjects
             THEN Throw(st, "TypeError")
        ELSE Saved(st,
                   [m.current EXCEPT !.tasks = toInbox(@, id),
                                     !.projects = SelectSeq(@, other)],
                   [m.archive EXCEPT !.tasks = toInbox(@, id),
                                     !.hasProjects = TRUE,
                                     !.projects = SelectSeq(@, other)])

\* project:delete that reassigns the tasks of db.json and forgets the archive
projectDeleteActiveOnly(st, id) ==
    IF id = inbox THEN Throw(st, "Cannot delete Inbox")
    ELSE LET m == loadMerged(st)
             other(p) == p.id # id
         IN  IF m.st # "ok" THEN Throw(st, m.st)
             ELSE IF ~m.current.hasTasks \/ ~m.archive.hasTasks \/ ~m.current.hasProjects
                  THEN Throw(st, "TypeError")
             ELSE Saved(st,
                        [m.current EXCEPT !.tasks = toInbox(@, id),
                                          !.projects = SelectSeq(@, other)],
                        [m.archive EXCEPT !.hasProjects = TRUE,
                                          !.projects = SelectSeq(@, other)])

\* ipcMain.handle('project:delete')
projectDelete(st, id) ==
    IF id = inbox THEN Throw(st, "Cannot delete Inbox")
    ELSE LET m == loadMerged(st)
             other(p) == p.id # id
         IN  IF m.st # "ok" THEN Throw(st, m.st)
             ELSE IF ~m.current.hasTasks \/ ~m.archive.hasTasks \/ ~m.current.hasProjects
                  THEN Throw(st, "TypeError")
             ELSE Saved(st,
                        [m.current EXCEPT !.tasks = toInbox(@, id),
                                          !.projects = SelectSeq(@, other)],
                        [m.archive EXCEPT !.tasks = toInbox(@, id),
                                          !.hasProjects = TRUE,
                                          !.projects = SelectSeq(@, other)])

\* 'Untitled'
Untitled == <<"U">>
\* a request without title (undefined)
NoTitle == <<"undefined">>

\* Number(p): NaN, or a number kept as twice its value (halves are the
\* fractions of the model)
NaN == [nan |-> TRUE, twice |-> 0]
Num(twice) == [nan |-> FALSE, twice |-> twice]

\* clampPriority without Math.min
clampPriorityNoMin(n) ==
    LET floor == n.twice \div 2
    IN  IF n.nan THEN 0 ELSE IF floor < 0 THEN 0 ELSE floor

\* clampPriority(p), n = Number(p); \div rounds down as Math.floor does
clampPriority(n) ==
    LET floor == n.twice \div 2
        min   == IF floor > 3 THEN 3 ELSE floor
    IN  IF n.nan THEN 0 ELSE IF min < 0 THEN 0 ELSE min

\* sanitizeTags(tags) for tags that are strings
sanitizeTags(tags) ==
    LET trimmed == [i \in 1..Len(tags) |-> trim(tags[i])]
        nonEmpty(t) == t # <<>>
        kept == SelectSeq(trimmed, nonEmpty)
    IN  SubSeq(kept, 1, IF Len(kept) > TagLimit THEN TagLimit ELSE Len(kept))

\* the argument of task:add with a projectId (or none) and nothing else
PlainTask(projectId) ==
    [title |-> NoTitle, projectId |-> projectId, hasPriority |-> FALSE,
     priority |-> NaN, hasTags |-> FALSE, tags |-> <<>>]

\* ipcMain.handle('task:add'); task: the argument, id: the value of
\* randId(), date: new Date()
taskAddRequest(st, task, id, date) ==
    LET m == loadMerged(st)
        title == IF task.title = NoTitle THEN <<>> ELSE trim(task.title)
        newTask == [id |-> id,
                    title |-> IF title = <<>> THEN Untitled ELSE title,
                    projectId |-> IF task.projectId = NoProject THEN inbox
                                  ELSE task.projectId,
                    priority |-> clampPriority(IF task.hasPriority THEN task.priority
                                               ELSE NaN),
                    tags |-> IF task.hasTags THEN sanitizeTags(task.tags) ELSE <<>>,
                    completed |-> FALSE, dateCompleted |-> NoDate, createdAt |-> date]
    IN  IF m.st # "ok" THEN Throw(st, m.st)
        ELSE IF ~m.current.hasTasks THEN Throw(st, "TypeError")
        ELSE Saved(st, [m.current EXCEPT !.tasks = Append(@, newTask)], m.archive)

\* task:add of a task that has a projectId (or none) and nothing else
taskAdd(st, projectId, id, date) == taskAddRequest(st, PlainTask(projectId), id, date)

\* the assignments of task:update without the one that clears dateCompleted
patchedKeepsDate(t, projectId, completed, date) ==
    LET t1 == IF projectId # NoProject THEN [t EXCEPT !.projectId = projectId] ELSE t
    IN  IF completed = "none" THEN t1
        ELSE [t1 EXCEPT !.completed = (completed = "true"),
                        !.dateCompleted = IF completed = "true" THEN date ELSE @]

\* the assignments of task:update, with one to projectId for a patch that has
\* none
patchedResetsProject(t, projectId, completed, date) ==
    LET t1 == [t EXCEPT !.projectId = IF projectId # NoProject THEN projectId ELSE inbox]
    IN  IF completed = "none" THEN t1
        ELSE [t1 EXCEPT !.completed = (completed = "true"),
                        !.dateCompleted = IF completed = "true" THEN date ELSE NoDate]

\* the assignments of task:update; completed is "none", "true" or "false"
patched(t, projectId, completed, date) ==
    LET t1 == IF projectId # NoProject THEN [t EXCEPT !.projectId = projectId] ELSE t
    IN  IF completed = "none" THEN t1
        ELSE [t1 EXCEPT !.completed = (completed = "true"),
                        !.dateCompleted = IF completed = "true" THEN date ELSE NoDate]

\* the argument of task:update that patches projectId and completed alone
PlainPartial(projectId, completed) ==
    [title |-> NoTitle, projectId |-> projectId, hasPriority |-> FALSE,
     priority |-> NaN, hasTags |-> FALSE, tags |-> <<>>, completed |-> completed]

\* all the assignments of task:update to the fields of the model
patchedRequest(t, partial, date) ==
    patched([t EXCEPT
               !.title = IF partial.title # NoTitle THEN trim(partial.title) ELSE @,
               !.priority = IF partial.hasPriority THEN clampPriority(partial.priority)
                            ELSE @,
               !.tags = IF partial.hasTags THEN sanitizeTags(partial.tags) ELSE @],
            partial.projectId, partial.completed, date)

\* task:update that takes an archived task back to db.json when it is edited
taskUpdatePromotes(st, id, projectId, completed, date) ==
    LET m == loadMerged(st)
        other(t) == t.id # id
    IN
    IF m.st # "ok" THEN Throw(st, m.st)
    ELSE IF ~m.current.hasTasks THEN Throw(st, "TypeError")
    ELSE LET ic == findIndex(m.current.tasks, id) IN
         IF ic # 0
         THEN Saved(st, [m.current EXCEPT
                           !.tasks[ic] = patched(@, projectId, completed, date)],
                    m.archive)
         ELSE IF ~m.archive.hasTasks THEN Throw(st, "TypeError")
         ELSE LET ia == findIndex(m.archive.tasks, id) IN
              IF ia # 0
              THEN Saved(st,
                         [m.current EXCEPT
                            !.tasks = Append(@, patched(m.archive.tasks[ia],
                                                        projectId, completed, date))],
                         [m.archive EXCEPT !.tasks = SelectSeq(@, other)])
              ELSE Throw(st, "Task not found")

\* ipcMain.handle('task:update'); partial: the argument without its id
taskUpdateRequest(st, id, partial, date) ==
    LET m == loadMerged(st) IN
    IF m.st # "ok" THEN Throw(st, m.st)
    ELSE IF ~m.current.hasTasks THEN Throw(st, "TypeError")
    ELSE LET ic == findIndex(m.current.tasks, id) IN
         IF ic # 0
         THEN Saved(st, [m.current EXCEPT
                           !.tasks[ic] = patchedRequest(@, partial, date)],
                    m.archive)
         ELSE IF ~m.archive.hasTasks THEN Throw(st, "TypeError")
         ELSE LET ia == findIndex(m.archive.tasks, id) IN
              IF ia # 0
              THEN Saved(st, m.current,
                         [m.archive EXCEPT
                            !.tasks[ia] = patchedRequest(@, partial, date)])
              ELSE Throw(st, "Task not found")

\* task:update of a partial that has projectId and completed (or neither)
\* and nothing else
taskUpdate(st, id, projectId, completed, date) ==
    taskUpdateRequest(st, id, PlainPartial(projectId, completed), date)

\* task:delete that filters the tasks of db.json alone
taskDeleteActiveOnly(st, id) ==
    LET m == loadMerged(st)
        other(t) == t.id # id
    IN  IF m.st # "ok" THEN Throw(st, m.st)
        ELSE IF ~m.current.hasTasks \/ ~m.archive.hasTasks THEN Throw(st, "TypeError")
        ELSE IF findIndex(m.current.tasks, id) = 0 /\ findIndex(m.archive.tasks, id) = 0
             THEN Throw(st, "Task not found")
        ELSE Saved(st, [m.current EXCEPT !.tasks = SelectSeq(@, other)], m.archive)

\* ipcMain.handle('task:delete')
taskDelete(st, id) ==
    LET m == loadMerged(st)
        other(t) == t.id # id
    IN  IF m.st # "ok" THEN Throw(st, m.st)
        ELSE IF ~m.current.hasTasks \/ ~m.archive.hasTasks THEN Throw(st, "TypeError")
        ELSE IF findIndex(m.current.tasks, id) = 0 /\ findIndex(m.archive.tasks, id) = 0
             THEN Throw(st, "Task not found")
        ELSE Saved(st, [m.current EXCEPT !.tasks = SelectSeq(@, other)],
                   [m.archive EXCEPT !.tasks = SelectSeq(@, other)])

(* -------------------------- backup / restore -------------------------- *)
\* backup:export that reads the datasets through readJSONFile
backupExportDecrypts(st) ==
    LET enc == st.settings.encryptionEnabled IN
    [version |-> 1, encryptionEnabled |-> enc,
     current |-> readJSONFile(st.dbFile, enc, st.sessionKey).val,
     archive |-> readJSONFile(st.archiveFile, enc, st.sessionKey).val]

\* the document backup:export writes (its settings member is never read back)
backupExport(st) ==
    [version |-> 1, encryptionEnabled |-> st.settings.encryptionEnabled,
     current |-> IF st.dbFile # Absent THEN st.dbFile
                 ELSE IF st.settings.encryptionEnabled THEN NoObj ELSE defaultDB,
     archive |-> st.archiveFile]

\* ipcMain.handle('backup:import') of the document parsed
backupImport(st, parsed) ==
    LET enc == st.settings.encryptionEnabled IN
    IF parsed.version = 0 THEN Throw(st, "Invalid backup file")
    ELSE IF parsed.encryptionEnabled
    THEN [st EXCEPT !.dbFile = parsed.current,
                    !.archiveFile = IF parsed.archive # NoObj THEN parsed.archive ELSE @,
                    !.res = "ok", !.escrow = "none"]
    ELSE IF enc /\ st.sessionKey = NoKey THEN Throw(st, "Locked: no session key")
    ELSE [st EXCEPT
            !.dbFile = writeJSONFile(parsed.current, enc, st.sessionKey),
            !.archiveFile = IF parsed.archive # NoObj
                            THEN writeJSONFile(parsed.archive, enc, st.sessionKey)
                            ELSE @,
            !.res = "ok", !.escrow = "none"]

(* ------------------------------ requests ------------------------------ *)
ProjectIds == {inbox} \cup (1..MaxProjects)
TaskIds == 1..MaxTasks

Init ==
    /\ settings = defaultSettings
    /\ dbFile = defaultDB
    /\ archiveFile = Absent
    /\ sessionKey = NoKey
    /\ keychain = NoKey
    /\ bioAvail \in BOOLEAN
    /\ backup = NoBackup
    /\ nextTask = 1
    /\ nextProj = 1
    /\ nextSalt = 1
    /\ now = 1
    /\ userSecret = NoPass
    /\ aw = AwIdle
    /\ calls = [c \in Slots |-> NoCall]

\* the handler returned (or threw) leaving st; arg: the passcode it was given
Apply(st, arg) ==
    /\ settings' = st.settings
    /\ dbFile' = st.dbFile
    /\ archiveFile' = st.archiveFile
    /\ sessionKey' = st.sessionKey
    /\ keychain' = st.keychain
    /\ userSecret' = IF ~st.settings.encryptionEnabled THEN NoPass
                     ELSE IF ~settings.encryptionEnabled THEN arg ELSE userSecret
    /\ UNCHANGED <<bioAvail, aw, calls>>

SecurityEnable ==
    \E passcode \in Secrets, useBiometrics \in BOOLEAN, storeOk \in BOOLEAN :
        /\ ~settings.encryptionEnabled =>
               /\ nextSalt <= NumSalts
               /\ Depth(dbFile) < MaxWrap /\ Depth(archiveFile) < MaxWrap
        /\ Apply(securityEnable(Cur, passcode, useBiometrics, nextSalt, storeOk),
                 passcode)
        /\ nextSalt' = IF settings.encryptionEnabled THEN nextSalt ELSE nextSalt + 1
        /\ UNCHANGED <<backup, nextTask, nextProj, now>>

SecurityDisable ==
    \E delOk \in BOOLEAN :
        /\ Apply(securityDisable(Cur, delOk), NoPass)
        /\ UNCHANGED <<backup, nextTask, nextProj, nextSalt, now>>

SecurityUnlock ==
    \E passcode \in Secrets \cup {NoPass}, bioOk \in BOOLEAN, storeOk \in BOOLEAN :
        /\ Apply(securityUnlock(Cur, passcode, bioOk, storeOk), passcode)
        /\ UNCHANGED <<backup, nextTask, nextProj, nextSalt, now>>

SecurityLock ==
    /\ Apply(securityLock(Cur), NoPass)
    /\ UNCHANGED <<backup, nextTask, nextProj, nextSalt, now>>

DbLoad ==
    /\ Apply(dbLoad(Cur), NoPass)
    /\ UNCHANGED <<backup, nextTask, nextProj, nextSalt, now>>

ProjectAdd(Names) ==
    \E name \in Names :
        /\ nextProj <= MaxProjects
        /\ LET st == projectAdd(Cur, name, nextProj) IN
               /\ Apply(st, NoPass)
               /\ nextProj' = IF Failed(st) THEN nextProj ELSE nextProj + 1
        /\ UNCHANGED <<backup, nextTask, nextSalt, now>>

ProjectRename(Ids, Names) ==
    \E id \in Ids, name \in Names :
        /\ Apply(projectRename(Cur, id, name), NoPass)
        /\ UNCHANGED <<backup, nextTask, nextProj, nextSalt, now>>

ProjectDelete(Ids) ==
    \E id \in Ids :
        /\ Apply(projectDelete(Cur, id), NoPass)
        /\ UNCHANGED <<backup, nextTask, nextProj, nextSalt, now>>

TaskAdd(Projects) ==
    \E projectId \in Projects :
        /\ nextTask <= MaxTasks
        /\ now <= MaxTime
        /\ LET st == taskAdd(Cur, projectId, nextTask, now) IN
               /\ Apply(st, NoPass)
               /\ nextTask' = IF Failed(st) THEN nextTask ELSE nextTask + 1
               /\ now' = IF Failed(st) THEN now ELSE now + 1
        /\ UNCHANGED <<backup, nextProj, nextSalt>>

TaskUpdate(Ids, Projects, Completed) ==
    \E id \in Ids, projectId \in Projects, completed \in Completed :
        /\ completed = "true" => now <= MaxTime
        /\ LET st == taskUpdate(Cur, id, projectId, completed, now) IN
               /\ Apply(st, NoPass)
               /\ now' = IF ~Failed(st) /\ completed = "true" THEN now + 1 ELSE now
        /\ UNCHANGED <<backup, nextTask, nextProj, nextSalt>>

TaskDelete(Ids) ==
    \E id \in Ids :
        /\ Apply(taskDelete(Cur, id), NoPass)
        /\ UNCHANGED <<backup, nextTask, nextProj, nextSalt, now>>

BackupExport ==
    /\ Apply(Ok(Cur), NoPass)
    /\ backup' = backupExport(Cur)
    /\ UNCHANGED <<nextTask, nextProj, nextSalt, now>>

\* the user picks the file exported before, or a file that is no backup
BackupImport ==
    \E parsed \in {backup, NoBackup} :
        LET st == backupImport(Cur, parsed) IN
            /\ Depth(st.dbFile) <= MaxWrap /\ Depth(st.archiveFile) <= MaxWrap
            /\ Apply(st, NoPass)
            /\ UNCHANGED <<backup, nextTask, nextProj, nextSalt, now>>

EnvReset ==
    \E delOk \in BOOLEAN :
        /\ Apply(envReset(Cur, delOk), NoPass)
        /\ UNCHANGED <<backup, nextTask, nextProj, nextSalt, now>>

\* outside the program: the keychain item is deleted (Keychain Access, a
\* restored system), the case 'NO_BIO_KEY' of security:unlock is written for
KeychainEntryLost ==
    /\ keychain # NoKey
    /\ keychain' = NoKey
    /\ UNCHANGED <<settings, dbFile, archiveFile, sessionKey, bioAvail, backup,
                   nextTask, nextProj, nextSalt, now, userSecret, aw, calls>>

\* Spec: the security, backup and reset handlers over a dataset that grows
\* by task:add and is archived by completing tasks
Next ==
    \/ SecurityEnable
    \/ SecurityDisable
    \/ SecurityUnlock
    \/ SecurityLock
    \/ DbLoad
    \/ TaskAdd({NoProject})
    \/ TaskUpdate(TaskIds, {NoProject}, {"true"})
    \/ BackupExport
    \/ BackupImport
    \/ EnvReset
    \/ KeychainEntryLost

Spec == Init /\ [][Next]_vars

(* ----------------------------- atomicWrite ---------------------------- *)
\* number of chunks fs.writeFile writes a file in
FileChunks == 2

TargetPath == "db.json"
TmpPath == "db.json.tmp"

\* atomicWrite that writes to the file itself
tmpIsTarget(file) == file

\* const tmp = join(dirname(file), `${basename(file)}.${Date.now()}.tmp`)
tmpName(file) == TmpPath

\* a file that holds the first k chunks of doc
Partial(doc, k) == [doc |-> doc, written |-> k]

\* the directory: db.json and the temp file of the call in progress
Files == [p \in {TargetPath, TmpPath} |-> IF p = TargetPath THEN dbFile ELSE aw.tmp]

\* one step of fs.writeFile(path, contents): it truncates or creates the file,
\* then appends chunk after chunk
fsWriteFile(files, path, contents) ==
    LET f == files[path]
        k == IF "written" \in DOMAIN f /\ f.doc = contents THEN f.written + 1 ELSE 0
    IN  [files EXCEPT ![path] = IF k = FileChunks THEN contents ELSE Partial(contents, k)]

\* fs.rename(from, to)
fsRename(files, from, to) ==
    IF from = to THEN files ELSE [files EXCEPT ![to] = files[from], ![from] = Absent]

\* the catch block of atomicWrite that leaves the temp file behind
awCatchKeepsTmp(files, tmp, unlinkOk) == files

\* the catch block of atomicWrite: if (existsSync(tmp)) await fs.unlink(tmp),
\* a failure of unlink is logged
awCatch(files, tmp, unlinkOk) ==
    IF files[tmp] # Absent /\ unlinkOk THEN [files EXCEPT ![tmp] = Absent] ELSE files

\* contents written to db.json
WriteDocs ==
    {defaultDB,
     Dataset(defaultDB.projects,
             <<[id |-> 1, title |-> Untitled, projectId |-> inbox, priority |-> 0,
                tags |-> <<>>, completed |-> FALSE,
                dateCompleted |-> NoDate, createdAt |-> 1]>>),
     encryptPayload(defaultDB, [pass |-> "abcd", salt |-> 1])}

InitWrite ==
    /\ settings = defaultSettings
    /\ dbFile \in WriteDocs \cup {Absent}
    /\ archiveFile = Absent
    /\ sessionKey = NoKey
    /\ keychain = NoKey
    /\ bioAvail = FALSE
    /\ backup = NoBackup
    /\ nextTask = 1
    /\ nextProj = 1
    /\ nextSalt = 1
    /\ now = 1
    /\ userSecret = NoPass
    /\ aw = AwIdle
    /\ calls = [c \in Slots |-> NoCall]

\* the files after a step of atomicWrite, a the call
SetFiles(files, a) ==
    /\ dbFile' = files[TargetPath]
    /\ aw' = [a EXCEPT !.tmp = files[TmpPath]]
    /\ UNCHANGED <<settings, archiveFile, sessionKey, keychain, bioAvail, backup,
                   nextTask, nextProj, nextSalt, now, userSecret, calls>>

\* atomicWrite(dbPath, contents) is called; the temp file of an earlier call
\* has another name (Date.now())
AwCall ==
    /\ aw.pc \in {"idle", "done", "thrown"}
    /\ \E contents \in WriteDocs :
           SetFiles([Files EXCEPT ![TmpPath] = Absent],
                    [pc |-> "write", tmp |-> Absent, contents |-> contents,
                     old |-> dbFile, cleanup |-> "none"])

\* await fs.writeFile(tmp, contents, 'utf8'), one step of it
AwWriteFile ==
    /\ aw.pc = "write"
    /\ LET tmp == tmpName(TargetPath)
           f   == fsWriteFile(Files, tmp, aw.contents)
       IN  SetFiles(f, [aw EXCEPT !.pc = IF f[tmp] = aw.contents THEN "rename" ELSE "write"])

\* fs.writeFile throws (disk full, permission)
AwWriteFails ==
    /\ aw.pc = "write"
    /\ SetFiles(Files, [aw EXCEPT !.pc = "catch"])

\* await fs.rename(tmp, file)
AwRename ==
    /\ aw.pc = "rename"
    /\ SetFiles(fsRename(Files, tmpName(TargetPath), TargetPath), [aw EXCEPT !.pc = "done"])

\* fs.rename throws
AwRenameFails ==
    /\ aw.pc = "rename"
    /\ SetFiles(Files, [aw EXCEPT !.pc = "catch"])

\* the catch block, then throw error
AwCatch ==
    /\ aw.pc = "catch"
    /\ \E unlinkOk \in BOOLEAN :
           LET tmp == tmpName(TargetPath) IN
           SetFiles(awCatch(Files, tmp, unlinkOk),
                    [aw EXCEPT !.pc = "thrown",
                               !.cleanup = IF Files[tmp] = Absent THEN "none"
                                           ELSE IF unlinkOk THEN "removed" ELSE "failed"])

\* the process dies during the call
AwCrash ==
    /\ aw.pc \in {"write", "rename", "catch"}
    /\ SetFiles(Files, [aw EXCEPT !.pc = "crashed"])

NextWrite ==
    \/ AwCall
    \/ AwWriteFile
    \/ AwWriteFails
    \/ AwRename
    \/ AwRenameFails
    \/ AwCatch
    \/ AwCrash

\* SpecWrite: calls of atomicWrite on db.json, one after the other
SpecWrite == InitWrite /\ [][NextWrite]_vars

(* ------------------------- projects and tasks ------------------------ *)
\* SpecData: every project and task handler, db:load and the four security
\* handlers; no backup is restored and the environment is not reset
NextData ==
    \/ ProjectAdd({<<"W">>})
    \/ ProjectRename(ProjectIds, {<<"i">>})
    \/ ProjectDelete(ProjectIds)
    \/ TaskAdd({NoProject, 1})
    \/ TaskUpdate(TaskIds, {NoProject, 1}, {"none", "true", "false"})
    \/ TaskDelete(TaskIds)
    \/ DbLoad
    \/ SecurityEnable
    \/ SecurityDisable
    \/ SecurityUnlock
    \/ SecurityLock

SpecData == Init /\ [][NextData]_vars

(* -------------------------- archive migration ------------------------- *)
\* SpecMigrate: the task handlers, each ending in saveCurrentAndMaybeArchive,
\* over every db.json of at most MigTasks tasks (a restored backup, a file
\* written under a larger threshold) with or without an archive.json
MigTasks == 3
MigDates == 2
MigIds == 1..(MigTasks + 1)

\* completed, dateCompleted and createdAt of a task: task:add and task:update
\* date a completion at or after the creation; a restored task may be
\* completed without a completion date
TaskShapes ==
    {sh \in [completed : BOOLEAN, dateCompleted : {NoDate} \cup (1..MigDates),
             createdAt : 1..MigDates] :
        /\ ~sh.completed => sh.dateCompleted = NoDate
        /\ sh.dateCompleted # NoDate => sh.createdAt <= sh.dateCompleted}

\* task lists with the ids 1, 2, ... in the order of the list
MigTaskLists ==
    UNION {{[i \in 1..n |-> [id |-> i, title |-> Untitled, projectId |-> inbox,
                              priority |-> 0, tags |-> <<>>,
                              completed |-> f[i].completed,
                              dateCompleted |-> f[i].dateCompleted,
                              createdAt |-> f[i].createdAt]] :
               f \in [1..n -> TaskShapes]} : n \in 0..MigTasks}

\* a task archived before
OldTask ==
    [id |-> MigTasks + 1, title |-> Untitled, projectId |-> inbox, priority |-> 0,
     tags |-> <<>>, completed |-> TRUE, dateCompleted |-> 1, createdAt |-> 1]

InitMigrate ==
    /\ settings = defaultSettings
    /\ dbFile \in {Dataset(defaultDB.projects, ts) : ts \in MigTaskLists}
    /\ archiveFile \in {Absent, Dataset(<<>>, <<OldTask>>)}
    /\ sessionKey = NoKey
    /\ keychain = NoKey
    /\ bioAvail = FALSE
    /\ backup = NoBackup
    /\ nextTask = MigTasks + 2
    /\ nextProj = 1
    /\ nextSalt = 1
    /\ now = MigDates + 1
    /\ userSecret = NoPass
    /\ aw = AwIdle
    /\ calls = [c \in Slots |-> NoCall]

NextMigrate ==
    \/ TaskUpdate(MigIds, {NoProject}, {"none", "true", "false"})
    \/ TaskDelete(MigIds)
    \/ DbLoad

SpecMigrate == InitMigrate /\ [][NextMigrate]_vars

(* ----------------------------- properties ----------------------------- *)
Enabled == settings.encryptionEnabled
Locked == sessionKey = NoKey
LockedError == "Locked: no session key"
Passcodes == Secrets \cup {NoPass}
ProjectNames == {<<"W">>, <<" ", "i">>, <<" ">>}

\* st leaves db.json, archive.json and settings.json as they are
SameFiles(st) ==
    st.dbFile = dbFile /\ st.archiveFile = archiveFile /\ st.settings = settings

\* what the handlers answer to every request in the current state
EnableOutcomes ==
    {securityEnable(Cur, p, ub, nextSalt, ok) :
        p \in Secrets, ub \in BOOLEAN, ok \in BOOLEAN}
UnlockOutcomes ==
    {securityUnlock(Cur, p, b, ok) : p \in Passcodes, b \in BOOLEAN, ok \in BOOLEAN}
DisableOutcomes == {securityDisable(Cur, d) : d \in BOOLEAN}
ResetOutcomes == {envReset(Cur, d) : d \in BOOLEAN}
ImportOutcomes == {backupImport(Cur, b) : b \in {backup, NoBackup}}
\* P holds of what db:load, the project handlers and the task handlers
\* answer to every request in the current state
ForDataHandlers(P(_)) ==
    /\ P(dbLoad(Cur))
    /\ \A n \in ProjectNames : P(projectAdd(Cur, n, nextProj))
    /\ \A id \in ProjectIds, n \in ProjectNames : P(projectRename(Cur, id, n))
    /\ \A id \in ProjectIds : P(projectDelete(Cur, id))
    /\ \A pid \in ProjectIds \cup {NoProject} : P(taskAdd(Cur, pid, nextTask, now))
    /\ \A id \in TaskIds, pid \in ProjectIds \cup {NoProject},
          c \in {"none", "true", "false"} : P(taskUpdate(Cur, id, pid, c, now))
    /\ \A id \in TaskIds : P(taskDelete(Cur, id))

\* P holds of what every handler answers, security:enable, security:unlock
\* and env:reset apart
ForOtherHandlers(P(_)) ==
    /\ ForDataHandlers(P)
    /\ P(securityLock(Cur))
    /\ \A st \in DisableOutcomes \cup ImportOutcomes : P(st)

\* the key derived from p does not open db.json
WrongSecret(p) == dbFile.enc /\ ~AuthOk(dbFile, deriveKey(p, settings))

\* C1: with encryption enabled and the session locked, unlock with a secret
\* whose derived key does not decrypt the active dataset reports a failure
\* and leaves the session locked.
C1_WrongSecretStaysLocked ==
    \A p \in Secrets, storeOk \in BOOLEAN :
        (Enabled /\ Locked /\ WrongSecret(p)) =>
            LET st == securityUnlock(Cur, p, TRUE, storeOk)
            IN  Failed(st) /\ st.sessionKey = NoKey

\* C2: whenever encryption is enabled and the session is unlocked, the key in
\* memory decrypts the active dataset file.
C2_SessionKeyDecryptsActive ==
    (Enabled /\ ~Locked) => (dbFile.enc /\ AuthOk(dbFile, sessionKey))

\* lock, then unlock with passcode p, from the current state
Relocked(p, storeOk) == securityUnlock(securityLock(Cur), p, TRUE, storeOk)

\* C3: in every state with encryption enabled, lock followed by unlock with
\* the secret given to enable reaches Unlocked and load succeeds, with the
\* merged view that load gave before the lock.
C3_LockUnlockLoadRestores ==
    \A storeOk \in BOOLEAN :
        Enabled =>
            LET st == Relocked(userSecret, storeOk)
            IN  /\ st.sessionKey # NoKey
                /\ loadMerged(st).st = "ok"
                /\ loadMerged(Cur).st = "ok" => loadMerged(st) = loadMerged(Cur)

\* C4 as stated: while locked under encryption, load and every project and
\* task handler fail with the Locked error, set no session key and change no
\* file.
C4_LockedOpsFailLocked ==
    LET P(st) == st.res = LockedError /\ st.sessionKey = NoKey /\ SameFiles(st)
    IN  (Enabled /\ Locked) => ForDataHandlers(P)

\* C4 amended: while locked under encryption, load and every project and task
\* handler fail, set no session key and change no file; the failure is the
\* Locked error, except that project:delete of the Inbox is refused with its
\* own error before any read, and that a db.json holding no envelope is
\* refused as 'Expected encrypted file'.
C4_LockedOpsFail ==
    LET P(st) ==
            /\ Failed(st) /\ st.sessionKey = NoKey /\ SameFiles(st)
            /\ \/ st.res = LockedError
               \/ st.res = "Expected encrypted file" /\ ~dbFile.enc
               \/ st.res = "Cannot delete Inbox" /\ st = projectDelete(Cur, inbox)
    IN  (Enabled /\ Locked) => ForDataHandlers(P)

\* a locked encrypted dataset that holds a task and an archive
C4_Witness ==
    /\ Enabled /\ Locked /\ dbFile.enc /\ archiveFile # Absent
    /\ Len(dbFile.inner.tasks) > 0
    /\ dbLoad(Cur).res = LockedError
    /\ taskDelete(Cur, 1).res = LockedError

\* C5: unlock without a secret, with biometrics enabled and available and the
\* prompt passed, answers NO_BIO_KEY when the keychain holds no key, and
\* changes neither the session key nor any file or setting.
C5_EscrowKeyMissing ==
    \A storeOk \in BOOLEAN :
        (Enabled /\ settings.useBiometrics /\ bioAvail /\ keychain = NoKey) =>
            securityUnlock(Cur, NoPass, TRUE, storeOk) = Throw(Cur, "NO_BIO_KEY")

\* biometrics enabled, session locked, keychain entry gone
C5_Witness ==
    /\ Enabled /\ Locked /\ settings.useBiometrics /\ bioAvail /\ keychain = NoKey
    /\ securityUnlock(Cur, NoPass, TRUE, TRUE).res = "NO_BIO_KEY"

\* C6: lock succeeds in every state, discards the session key and changes no
\* file, setting or keychain entry; while locked, only security:unlock that
\* succeeds and security:enable that enables set a session key.
C6_LockDiscardsKey ==
    LET P(st) == st.sessionKey = NoKey
    IN  /\ securityLock(Cur) = [Cur EXCEPT !.sessionKey = NoKey]
        /\ Locked =>
              /\ ForOtherHandlers(P)
              /\ \A st \in ResetOutcomes : P(st)
              /\ \A st \in UnlockOutcomes : Failed(st) => P(st)
              /\ \A st \in EnableOutcomes : Enabled => P(st)

\* locked under encryption with a task on disk and a key in the keychain:
\* only security:lock leads here
C6_Witness ==
    /\ Enabled /\ Locked /\ keychain # NoKey
    /\ dbFile.enc /\ Len(dbFile.inner.tasks) > 0
    /\ securityLock(Cur) = Cur

\* C7: enable while encryption is disabled sets encryptionEnabled, stores a
\* salt, leaves the session unlocked with the key derived from the passcode
\* and that salt, and leaves db.json and an existing archive.json as
\* envelopes that decrypt under that key to their previous contents.
C7_EnableEncryptsFiles ==
    \A p \in Secrets, ub \in BOOLEAN, ok \in BOOLEAN :
        ~Enabled =>
            LET st == securityEnable(Cur, p, ub, nextSalt, ok)
            IN  /\ st.res = "ok"
                /\ st.settings.encryptionEnabled
                /\ st.settings.salt # NoSalt
                /\ st.sessionKey # NoKey
                /\ st.sessionKey = deriveKey(p, st.settings)
                /\ st.dbFile.enc
                /\ readJSONFile(st.dbFile, TRUE, st.sessionKey) = Result("ok", dbFile)
                /\ archiveFile = Absent => st.archiveFile = Absent
                /\ archiveFile # Absent =>
                      /\ st.archiveFile.enc
                      /\ readJSONFile(st.archiveFile, TRUE, st.sessionKey)
                             = Result("ok", archiveFile)

\* enable meets a plaintext dataset with tasks in db.json and in archive.json
C7_Witness ==
    /\ ~Enabled /\ nextSalt <= NumSalts
    /\ ~dbFile.enc /\ Len(dbFile.tasks) > 0
    /\ archiveFile # Absent /\ ~archiveFile.enc /\ Len(archiveFile.tasks) > 0
    /\ LET st == securityEnable(Cur, "abcd", FALSE, nextSalt, TRUE)
       IN  st.archiveFile.enc /\ st.archiveFile.inner = archiveFile

\* C8 as stated: once a salt is stored, no handler but env:reset changes it.
C8_SaltImmutable ==
    LET P(st) == st.settings.salt = settings.salt
    IN  settings.salt # NoSalt =>
            /\ ForOtherHandlers(P)
            /\ \A st \in EnableOutcomes \cup UnlockOutcomes : P(st)

\* C8 amended: the salt changes only in security:enable run while encryption
\* is disabled, which stores a fresh salt every time (also when one is stored
\* already), and in env:reset, which clears it; enable while enabled,
\* disable, unlock, lock, load, import and the mutators keep it.
C8_SaltChangesOnlyOnEnableOrReset ==
    LET P(st) == st.settings.salt = settings.salt
    IN  /\ settings.salt < nextSalt
        /\ ForOtherHandlers(P)
        /\ \A st \in UnlockOutcomes : P(st)
        /\ \A st \in EnableOutcomes :
              st.settings.salt = IF Enabled THEN settings.salt ELSE nextSalt
        /\ \A st \in ResetOutcomes : st.settings.salt = NoSalt

\* encryption was disabled again: the salt of the first enable is still
\* stored, and the next enable replaces it
C8_Witness ==
    /\ ~Enabled /\ settings.salt # NoSalt /\ nextSalt <= NumSalts
    /\ \A st \in DisableOutcomes : st.settings.salt = settings.salt
    /\ securityEnable(Cur, "abcd", FALSE, nextSalt, TRUE).settings.salt # settings.salt

\* C9: enable with biometrics requested and available, when storing the key
\* in the keychain fails, still succeeds: encryption is enabled, the session
\* is unlocked, the files are encrypted, and useBiometrics is stored false.
C9_EnableSurvivesEscrowFailure ==
    \A p \in Secrets :
        (~Enabled /\ bioAvail) =>
            LET st == securityEnable(Cur, p, TRUE, nextSalt, FALSE)
            IN  /\ st.res = "ok" /\ st.escrow = "failed"
                /\ st.settings.encryptionEnabled
                /\ ~st.settings.useBiometrics
                /\ st.sessionKey = deriveKey(p, st.settings)
                /\ st.dbFile = encryptPayload(dbFile, st.sessionKey)
                /\ st.keychain = keychain

\* enable meets a dataset with a task, biometrics available, keytar failing
C9_Witness ==
    /\ ~Enabled /\ bioAvail /\ nextSalt <= NumSalts
    /\ ~dbFile.enc /\ Len(dbFile.tasks) > 0
    /\ LET st == securityEnable(Cur, "abcd", TRUE, nextSalt, FALSE)
       IN  st.escrow = "failed" /\ st.settings.encryptionEnabled
           /\ ~st.settings.useBiometrics

\* C10: after security:enable and security:unlock, useBiometrics implies that
\* the keychain holds a key: a failure to store the key leaves useBiometrics
\* false.
C10_StoreFailureClearsBiometrics ==
    \A st \in EnableOutcomes \cup UnlockOutcomes :
        /\ st.escrow = "failed" => ~st.settings.useBiometrics
        /\ (st.escrow # "none" /\ st.settings.useBiometrics) => st.keychain # NoKey

\* C11: disable while unlocked ends with db.json and an existing archive.json
\* stored as plaintext equal to their decrypted content, encryptionEnabled
\* and useBiometrics false, no key in the keychain and no session key.
C11_DisableRestoresPlaintext ==
    \A delOk \in BOOLEAN :
        (Enabled /\ ~Locked) =>
            LET st == securityDisable(Cur, delOk)
            IN  /\ st.res = "ok"
                /\ dbFile.enc /\ st.dbFile = dbFile.inner /\ ~st.dbFile.enc
                /\ archiveFile = Absent => st.archiveFile = Absent
                /\ archiveFile # Absent =>
                      /\ archiveFile.enc /\ st.archiveFile = archiveFile.inner
                      /\ ~st.archiveFile.enc
                /\ ~st.settings.encryptionEnabled /\ ~st.settings.useBiometrics
                /\ st.keychain = NoKey
                /\ st.sessionKey = NoKey

\* C12: at every point of atomicWrite, also when the process dies in it, the
\* target holds its complete old contents or its complete new contents: the
\* old ones until the rename, the new ones after it.
C12_AtomicWrite ==
    aw.pc # "idle" =>
        dbFile = IF aw.pc = "done" THEN aw.contents ELSE aw.old

\* the process died between the last chunk of the temp file and the rename
C12_Witness ==
    /\ aw.pc = "crashed" /\ aw.tmp = aw.contents
    /\ aw.old # aw.contents /\ aw.old # Absent /\ dbFile = aw.old

\* C13 as stated: when atomicWrite has thrown, the temp file is removed and
\* the target holds its prior contents.
C13_FailureRemovesTmp ==
    aw.pc = "thrown" => (aw.tmp = Absent /\ dbFile = aw.old)

\* C13 amended: when atomicWrite has thrown, the target holds its prior
\* contents and the temp file is removed, unless fs.unlink failed on it too:
\* that failure is logged and the temp file stays; a call never returns
\* normally after fs.writeFile or fs.rename failed.
C13_FailureCleansUp ==
    /\ aw.pc = "thrown" =>
          /\ dbFile = aw.old
          /\ aw.cleanup # "failed" => aw.tmp = Absent
          /\ aw.cleanup = "failed" => aw.tmp # Absent
    /\ aw.pc = "done" => aw.cleanup = "none"

\* the rename failed, the complete temp file was removed, db.json is as before
C13_Witness ==
    /\ aw.pc = "thrown" /\ aw.cleanup = "removed" /\ aw.tmp = Absent
    /\ aw.old # aw.contents /\ dbFile = aw.old

\* C14: export under encryption, then env:reset, then import of that backup,
\* then unlock with the secret given to enable: load gives the projects and
\* tasks it gave before the reset.
C14_EncryptedBackupSurvivesReset ==
    \A delOk \in BOOLEAN, storeOk \in BOOLEAN :
        (Enabled /\ loadMerged(Cur).st = "ok") =>
            LET before   == loadMerged(Cur)
                exported == backupExport(Cur)
                imported == backupImport(envReset(Cur, delOk), exported)
                unlocked == securityUnlock(imported, userSecret, TRUE, storeOk)
                after    == loadMerged(unlocked)
            IN  /\ imported.res = "ok"
                /\ after.st = "ok"
                /\ after.projects = before.projects
                /\ after.tasks = before.tasks

\* C15: a step that writes a backup changes no dataset file, setting,
\* keychain entry or session key, whether the session is locked or not, and
\* the backup holds db.json and archive.json as they are on disk, with the
\* encryptionEnabled flag of the settings.
C15_ExportCopiesFiles ==
    [][backup' # backup =>
          /\ UNCHANGED <<settings, dbFile, archiveFile, sessionKey, keychain>>
          /\ backup'.version = 1
          /\ backup'.encryptionEnabled = settings.encryptionEnabled
          /\ backup'.current = dbFile
          /\ backup'.archive = archiveFile]_vars

\* a backup of a locked encrypted dataset with an archive
C15_Witness ==
    /\ Enabled /\ Locked /\ backup = backupExport(Cur)
    /\ backup.encryptionEnabled /\ backup.current.enc
    /\ backup.archive # NoObj /\ backup.archive.enc

\* C16: import of a backup made without encryption writes db.json and the
\* archive of the backup in the representation of the current setting: as
\* envelopes under the session key when encryption is enabled (failing with
\* the Locked error and changing no file when locked), as they are when it
\* is disabled; import of a backup made under encryption writes its blobs as
\* they are, without decrypting them; and no file that import wrote while
\* encryption is enabled is a plaintext dataset.
C16_ImportHonoursEncryption ==
    backup.version = 1 =>
        LET st == backupImport(Cur, backup)
            written(file, old, blob) ==
                IF blob = NoObj THEN file = old
                ELSE /\ IF backup.encryptionEnabled \/ ~Enabled THEN file = blob
                        ELSE /\ AuthOk(file, sessionKey)
                             /\ decryptPayload(file, sessionKey) = blob
                     /\ Enabled => file.enc
        IN  IF ~backup.encryptionEnabled /\ Enabled /\ Locked
            THEN st.res = LockedError /\ SameFiles(st)
            ELSE /\ st.res = "ok"
                 /\ written(st.dbFile, dbFile, backup.current)
                 /\ written(st.archiveFile, archiveFile, backup.archive)

\* C17: env:reset, from every state, ends with no archive file, the default
\* settings (encryption off, biometrics off, no salt), db.json equal to the
\* default dataset (the only project inbox, no task), no key in the keychain
\* and no session key.
C17_ResetRestoresDefaults ==
    \A st \in ResetOutcomes :
        /\ st.res = "ok"
        /\ st.archiveFile = Absent
        /\ st.settings = defaultSettings
        /\ ~st.settings.encryptionEnabled /\ ~st.settings.useBiometrics
        /\ st.settings.salt = NoSalt
        /\ st.dbFile = defaultDB
        /\ st.keychain = NoKey
        /\ st.sessionKey = NoKey

\* the tasks of a list, as a set
Range(list) == {list[i] : i \in 1..Len(list)}

\* what the files hold after saveCurrentAndMaybeArchive of what they hold now
SavedAgain(st) ==
    LET m == loadMerged(st) IN
    IF m.st = "ok" THEN Saved(st, m.current, m.archive) ELSE Throw(st, m.st)

\* C18: a save of n > ARCHIVE_THRESHOLD tasks in db.json, at least
\* n - ARCHIVE_THRESHOLD of them completed, leaves exactly ARCHIVE_THRESHOLD
\* tasks in db.json, in their order, and appends exactly n - ARCHIVE_THRESHOLD
\* tasks to the archive: completed tasks of db.json, none of them completed
\* (created, without completion date) later than a completed task that stays.
C18_MigrationMovesOldest ==
    LET m      == loadMerged(Cur)
        n      == Len(m.current.tasks)
        over   == n - ARCHIVE_THRESHOLD
        after  == loadMerged(SavedAgain(Cur))
        before == Len(m.archive.tasks)
        moved  == SubSeq(after.archive.tasks, before + 1, Len(after.archive.tasks))
        stays(t) == t \notin Range(moved)
    IN  (m.st = "ok" /\ over > 0
         /\ Len(SelectSeq(m.current.tasks, isCompleted)) >= over) =>
            /\ after.st = "ok"
            /\ Len(after.current.tasks) = ARCHIVE_THRESHOLD
            /\ Len(after.archive.tasks) = before + over
            /\ SubSeq(after.archive.tasks, 1, before) = m.archive.tasks
            /\ Len(moved) = over
            /\ after.current.tasks = SelectSeq(m.current.tasks, stays)
            /\ after.current.projects = m.current.projects
            /\ \A t \in Range(moved) :
                   /\ t \in Range(m.current.tasks) /\ t.completed
                   /\ \A u \in Range(after.current.tasks) :
                          u.completed =>
                              (IF t.dateCompleted # NoDate
                               THEN t.dateCompleted ELSE t.createdAt)
                              <= (IF u.dateCompleted # NoDate
                                  THEN u.dateCompleted ELSE u.createdAt)

\* several tasks over the threshold, all completed, the oldest completion
\* not at the head of the list and one without a completion date: the save
\* moves the oldest and keeps the first of the list
C18_Witness ==
    LET m     == loadMerged(Cur)
        n     == Len(m.current.tasks)
        after == loadMerged(SavedAgain(Cur))
    IN  /\ m.st = "ok" /\ n >= ARCHIVE_THRESHOLD + 2
        /\ \A t \in Range(m.current.tasks) : t.completed
        /\ \E t \in Range(m.current.tasks) : t.dateCompleted = NoDate
        /\ \E i \in 2..n : sortKey(m.current.tasks[i]) < sortKey(m.current.tasks[1])
        /\ m.archive.tasks # <<>>
        /\ after.st = "ok"
        /\ m.current.tasks[1] \in Range(after.current.tasks)
        /\ Len(after.archive.tasks) = Len(m.archive.tasks) + n - ARCHIVE_THRESHOLD

\* C19: a save of at most ARCHIVE_THRESHOLD tasks in db.json moves no task,
\* and a save that follows a save moves no task and leaves db.json and
\* archive.json as the first save wrote them.
C19_MigrationIdempotent ==
    LET m     == loadMerged(Cur)
        once  == SavedAgain(Cur)
        m1    == loadMerged(once)
        twice == SavedAgain(once)
    IN  m.st = "ok" =>
            /\ once.res = "ok" /\ twice.res = "ok"
            /\ Len(m.current.tasks) <= ARCHIVE_THRESHOLD =>
                   /\ m1.current = m.current
                   /\ m1.archive.tasks = m.archive.tasks
            /\ twice.dbFile = once.dbFile
            /\ twice.archiveFile = once.archiveFile
            /\ loadMerged(twice).current = m1.current
            /\ loadMerged(twice).archive = m1.archive

\* after the save of a task:update that completed a task and moved tasks to
\* the archive, completed tasks are left at the threshold in db.json: the
\* save that follows keeps them and rewrites both files as they are
C19_Witness ==
    LET m     == loadMerged(Cur)
        twice == SavedAgain(Cur)
    IN  /\ now > MigDates + 1
        /\ m.st = "ok" /\ Len(m.current.tasks) = ARCHIVE_THRESHOLD
        /\ \E t \in Range(m.current.tasks) : t.completed
        /\ \E t \in Range(m.archive.tasks) : t.dateCompleted = MigDates + 1
        /\ twice.res = "ok"
        /\ twice.dbFile = dbFile /\ twice.archiveFile = archiveFile

\* the dataset a file holds, under its envelopes; none in a missing file
RECURSIVE Contents(_)
Contents(file) ==
    IF file = Absent THEN Dataset(<<>>, <<>>)
    ELSE IF file.enc THEN Contents(file.inner) ELSE file

ActiveIds == {t.id : t \in Range(Contents(dbFile).tasks)}
ArchiveIds == {t.id : t \in Range(Contents(archiveFile).tasks)}

\* C20: in every step of the project, task and security handlers a task of
\* archive.json is not in db.json afterwards, a task that comes to db.json is
\* the new task of task:add, whose id no file has held, and a task comes to
\* archive.json only from db.json; task:update of a task of archive.json
\* rewrites that task at its place in archive.json and leaves the tasks of
\* db.json as they are.
C20_ArchiveNeverReturns ==
    [][/\ \A id \in ActiveIds \cup ArchiveIds : id < nextTask
       /\ ActiveIds \cap ArchiveIds = {}
       /\ \A id \in ArchiveIds : id \notin ActiveIds'
       /\ \A id \in ActiveIds' \ ActiveIds : id = nextTask /\ nextTask' = nextTask + 1
       /\ \A id \in ArchiveIds' \ ArchiveIds : id \in ActiveIds
       /\ \A id \in ArchiveIds, p \in {NoProject, 1}, c \in {"none", "true", "false"} :
              LET st  == taskUpdate(Cur, id, p, c, now)
                  old == Contents(archiveFile).tasks
                  new == Contents(st.archiveFile).tasks
                  i   == findIndex(old, id)
              IN  ~Failed(st) =>
                      /\ Contents(st.dbFile).tasks = Contents(dbFile).tasks
                      /\ new = [old EXCEPT ![i] = patched(old[i], p, c, now)]
                      /\ new[i].id = id
      ]_vars

\* a completed task is in archive.json, an open one in db.json, and the
\* archived task was updated to open again, under encryption, and stayed
C20_Witness ==
    /\ Enabled /\ ~Locked
    /\ ActiveIds # {} /\ ArchiveIds # {}
    /\ \E t \in Range(Contents(archiveFile).tasks) : ~t.completed /\ t.projectId = 1
    /\ ~Failed(taskUpdate(Cur, CHOOSE id \in ArchiveIds : TRUE, NoProject, "true", now))

(* ------------------- project and task handlers alone ------------------ *)
\* SpecMut: the project and task handlers and db:load from the default
\* dataset, encryption never enabled
NextMut ==
    \/ ProjectAdd(ProjectNames)
    \/ ProjectRename(ProjectIds, ProjectNames \cup {<<"i">>, <<>>})
    \/ ProjectDelete(ProjectIds)
    \/ TaskAdd({NoProject, 1})
    \/ TaskUpdate(TaskIds, {NoProject, inbox, 1}, {"none", "true", "false"})
    \/ TaskDelete(TaskIds)
    \/ DbLoad

SpecMut == Init /\ [][NextMut]_vars

(* ------------------------------- merge -------------------------------- *)
\* SpecMerge: db:load, project:rename and project:delete over every db.json
\* and archive.json of at most MergeLen projects and one task each (files of
\* a restored backup, whose archive may list projects)
MergeLen == 2
MergeIds == ProjectIds \cup {MaxProjects + 1}
MergeNames == {InboxName, <<"W">>}

\* the lists of at most MergeLen projects with distinct ids
ProjectLists ==
    UNION {{f \in [1..n -> [id : MergeIds, name : MergeNames]] :
               \A i, j \in 1..n : i # j => f[i].id # f[j].id} : n \in 0..MergeLen}

\* no task, or the one task with that id, in each of the projects
MergeTasks(id, completed) ==
    {<<>>} \cup {<<[id |-> id, title |-> Untitled, projectId |-> p, priority |-> 0,
                   tags |-> <<>>, completed |-> completed,
                   dateCompleted |-> IF completed THEN 1 ELSE NoDate,
                   createdAt |-> 1]>> : p \in MergeIds}

InitMerge ==
    /\ settings = defaultSettings
    /\ dbFile \in {Dataset(ps, ts) : ps \in ProjectLists, ts \in MergeTasks(1, FALSE)}
    /\ archiveFile \in {Absent} \cup
           {Dataset(ps, ts) : ps \in ProjectLists, ts \in MergeTasks(2, TRUE)}
    /\ sessionKey = NoKey
    /\ keychain = NoKey
    /\ bioAvail = FALSE
    /\ backup = NoBackup
    /\ nextTask = 3
    /\ nextProj = MaxProjects + 2
    /\ nextSalt = 1
    /\ now = 2
    /\ userSecret = NoPass
    /\ aw = AwIdle
    /\ calls = [c \in Slots |-> NoCall]

NextMerge ==
    \/ DbLoad
    \/ ProjectRename(MergeIds, {<<"i">>})
    \/ ProjectDelete(MergeIds)

SpecMerge == InitMerge /\ [][NextMerge]_vars

\* the ids of a list of projects
Ids(list) == {list[i].id : i \in 1..Len(list)}

\* C21: db:load answers with the projects of archive.json and db.json, one
\* entry for each id, the entry of db.json when both files list the id, and
\* with the tasks of db.json followed by those of archive.json; a project
\* that only archive.json lists and a task of db.json that references it
\* are both in the answer.
C21_MergedView ==
    LET m   == loadMerged(Cur)
        cur == Contents(dbFile)
        arc == Contents(archiveFile)
    IN  /\ dbLoad(Cur).res = "ok" /\ m.st = "ok"
        /\ Ids(m.projects) = Ids(cur.projects) \cup Ids(arc.projects)
        /\ \A i, j \in 1..Len(m.projects) :
               i # j => m.projects[i].id # m.projects[j].id
        /\ \A p \in Range(m.projects) :
               IF p.id \in Ids(cur.projects) THEN p \in Range(cur.projects)
               ELSE p \in Range(arc.projects)
        /\ m.tasks = cur.tasks \o arc.tasks
        /\ \A p \in Range(arc.projects), t \in Range(cur.tasks) :
               (p.id \notin Ids(cur.projects) /\ t.projectId = p.id) =>
                   p \in Range(m.projects) /\ t \in Range(m.tasks)

\* both files list a project, renamed in db.json alone, only archive.json
\* lists another, which the task of db.json references
C21_Witness ==
    LET m   == loadMerged(Cur)
        cur == Contents(dbFile)
        arc == Contents(archiveFile)
    IN  /\ \E p \in Range(cur.projects), q \in Range(arc.projects) :
               /\ p.id = q.id /\ p.name = <<"i">> /\ q.name # <<"i">>
               /\ p \in Range(m.projects)
        /\ \E q \in Range(arc.projects), t \in Range(cur.tasks) :
               /\ q.id \notin Ids(cur.projects) /\ t.projectId = q.id
               /\ q \in Range(m.projects) /\ t \in Range(m.tasks)
        /\ arc.tasks # <<>> /\ Len(m.tasks) = 2

\* C22: after every sequence of project and task handlers from the default
\* dataset db:load answers with a project of id inbox, and project:delete of
\* inbox fails and leaves the files as they are.
C22_InboxStays ==
    LET m  == loadMerged(Cur)
        st == projectDelete(Cur, inbox)
    IN  /\ m.st = "ok"
        /\ inbox \in Ids(m.projects)
        /\ st.res = "Cannot delete Inbox"
        /\ SameFiles(st)

\* inbox was renamed, a project was added and deleted again, tasks are in
\* both files
C22_Witness ==
    LET m == loadMerged(Cur)
    IN  /\ nextProj > 1 /\ Ids(m.projects) = {inbox}
        /\ \E p \in Range(m.projects) : p.id = inbox /\ p.name # InboxName
        /\ ActiveIds # {} /\ ArchiveIds # {}
        /\ Failed(projectDelete(Cur, inbox))

\* C23: in every state the project and task handlers reach, the projectId
\* of every task of db.json and archive.json is the id of a project listed
\* in db.json or archive.json.
C23_TasksReferenceProjects ==
    LET cur == Contents(dbFile)
        arc == Contents(archiveFile)
    IN  \A t \in Range(cur.tasks) \cup Range(arc.tasks) :
            t.projectId \in Ids(cur.projects) \cup Ids(arc.projects)

\* the task with its projectId set to inbox when it was id
Reassigned(t, id) == IF t.projectId = id THEN [t EXCEPT !.projectId = inbox] ELSE t

\* C24: project:delete of an id other than inbox succeeds, sets the projectId
\* of every task of db.json and archive.json that referenced the id to inbox
\* and changes no other task and no other field, takes the project out of
\* both files, so that db:load does not answer with it, and leaves every
\* other project, in its file and at its place, as it is.
C24_DeleteProjectReassigns ==
    \A id \in MergeIds \ {inbox} :
        LET st  == projectDelete(Cur, id)
            cur == Contents(dbFile)
            arc == Contents(archiveFile)
            c1  == Contents(st.dbFile)
            a1  == Contents(st.archiveFile)
            other(p) == p.id # id
        IN  /\ st.res = "ok"
            /\ c1.tasks = [i \in 1..Len(cur.tasks) |-> Reassigned(cur.tasks[i], id)]
            /\ a1.tasks = [i \in 1..Len(arc.tasks) |-> Reassigned(arc.tasks[i], id)]
            /\ c1.projects = SelectSeq(cur.projects, other)
            /\ a1.projects = SelectSeq(arc.projects, other)
            /\ id \notin Ids(loadMerged(st).projects)
            /\ st.settings = settings

\* the project to delete is listed in both files beside another project and
\* a task of each file references it
C24_Witness ==
    LET cur == Contents(dbFile)
        arc == Contents(archiveFile)
        st  == projectDelete(Cur, 1)
    IN  /\ 1 \in Ids(cur.projects) /\ 1 \in Ids(arc.projects)
        /\ Len(cur.projects) > 1 /\ Len(arc.projects) > 1
        /\ \E p \in Range(cur.projects) : p.name = <<"i">>
        /\ \E t \in Range(cur.tasks) : t.projectId = 1
        /\ \E t \in Range(arc.tasks) : t.projectId = 1
        /\ \A t \in Range(Contents(st.dbFile).tasks) \cup
                    Range(Contents(st.archiveFile).tasks) : t.projectId = inbox

\* the names project:add is asked for: blank, padded, in either case
AddNames == ProjectNames \cup {<<>>, <<"i">>, <<"w">>, <<"I", " ">>, <<"x">>}

\* the same letters, whatever their case
SameName(a, b) ==
    /\ Len(a) = Len(b)
    /\ \A i \in 1..Len(a) :
           \/ a[i] = b[i]
           \/ {a[i], b[i]} \in {{"I", "i"}, {"W", "w"}}

\* C25: project:add of a name that is empty once trimmed, or that is, but
\* for the case of its letters, the name of a project of db.json or
\* archive.json, fails with the error of that case and leaves db.json,
\* archive.json and the settings as they are.
C25_AddProjectRejects ==
    \A name \in AddNames :
        LET st  == projectAdd(Cur, name, nextProj)
            all == Range(Contents(dbFile).projects) \cup
                   Range(Contents(archiveFile).projects)
        IN  /\ trim(name) = <<>> =>
                   st.res = "Project name required" /\ SameFiles(st)
            /\ (trim(name) # <<>> /\ \E p \in all : SameName(p.name, trim(name))) =>
                   st.res = "A project with that name already exists" /\ SameFiles(st)

\* a name of archive.json alone, asked for in the other case, is refused
\* while a new name is accepted
C25_Witness ==
    /\ \E p \in Range(Contents(archiveFile).projects) :
           /\ p.name = <<"W">>
           /\ \A q \in Range(Contents(dbFile).projects) : q.name # <<"W">>
    /\ \E q \in Range(Contents(dbFile).projects) : q.name = <<"i">>
    /\ Failed(projectAdd(Cur, <<"w">>, nextProj))
    /\ Failed(projectAdd(Cur, <<" ", "I">>, nextProj))
    /\ Failed(projectAdd(Cur, <<" ">>, nextProj))
    /\ ~Failed(projectAdd(Cur, <<"x">>, nextProj))

\* C26: in every state project:add, project:rename and project:delete
\* reach, no project of db.json or archive.json has an empty name and no two
\* projects have the same name but for the case of the letters.
C26_ProjectNamesUnique ==
    LET all == Range(Contents(dbFile).projects) \cup
               Range(Contents(archiveFile).projects)
    IN  /\ \A p \in all : p.name # <<>>
        /\ \A p, q \in all : p.id # q.id => ~SameName(p.name, q.name)

\* C27: in every state task:add and task:update reach, a task of db.json or
\* archive.json that is not completed has no dateCompleted and a task that
\* is completed has one.
C27_DateCompletedWithCompleted ==
    \A t \in Range(Contents(dbFile).tasks) \cup Range(Contents(archiveFile).tasks) :
        t.completed <=> t.dateCompleted # NoDate

\* a task that was completed and archived, then opened again, beside a task
\* of db.json
C27_Witness ==
    /\ \E t \in Range(Contents(archiveFile).tasks) :
           ~t.completed /\ t.dateCompleted = NoDate
    /\ ActiveIds # {}
    /\ now > 1

\* the task of that id in the files st leaves
TaskOf(st, id) ==
    LET all == Contents(st.dbFile).tasks \o Contents(st.archiveFile).tasks
    IN  all[findIndex(all, id)]

\* C28: task:update sets dateCompleted when the patch turns completed from
\* false to true, clears it when the patch turns completed from true to
\* false, and leaves it as it is when the patch has no completed or has the
\* value the task has already.
C28_DateChangesOnTransition ==
    \A id \in ActiveIds \cup ArchiveIds, c \in {"none", "true", "false"} :
        LET t  == TaskOf(Cur, id)
            st == taskUpdate(Cur, id, NoProject, c, now)
            t1 == TaskOf(st, id)
        IN  /\ st.res = "ok"
            /\ (c = "true" /\ ~t.completed) => t1.dateCompleted = now
            /\ (c = "false" /\ t.completed) => t1.dateCompleted = NoDate
            /\ (c = "none" \/ (c = "true") = t.completed) =>
                   t1.dateCompleted = t.dateCompleted

\* the patches of task:update: a project or none, completed or none
PatchProjects == {NoProject, inbox, 1}
PatchCompleted == {"none", "true", "false"}

\* t1 is t with the fields of the patch assigned and no other field changed
OnlyPatched(t, t1, p, c) ==
    /\ t1.id = t.id /\ t1.createdAt = t.createdAt
    /\ t1.title = t.title /\ t1.priority = t.priority /\ t1.tags = t.tags
    /\ t1.projectId = IF p = NoProject THEN t.projectId ELSE p
    /\ IF c = "none"
       THEN t1.completed = t.completed /\ t1.dateCompleted = t.dateCompleted
       ELSE t1.completed = (c = "true")

\* task:update of an id no file holds fails and writes nothing
UnknownTaskFails ==
    \A id \in MigIds \ (ActiveIds \cup ArchiveIds), p \in PatchProjects, c \in PatchCompleted :
        LET st == taskUpdate(Cur, id, p, c, now)
        IN  st.res = "Task not found" /\ SameFiles(st)

\* C29 as stated: task:update of a task of db.json or archive.json assigns
\* the fields of the patch (dateCompleted with completed) and no other,
\* leaves the task in the file where it was, at its place, and every other
\* task and every project as they are; for an id no file holds it fails
\* with 'Task not found' and writes nothing.
C29_UpdateKeepsDataset ==
    /\ UnknownTaskFails
    /\ \A id \in ActiveIds \cup ArchiveIds, p \in PatchProjects, c \in PatchCompleted :
           LET st  == taskUpdate(Cur, id, p, c, now)
               cur == Contents(dbFile)
               arc == Contents(archiveFile)
               c1  == Contents(st.dbFile)
               a1  == Contents(st.archiveFile)
               changed(old, new) ==
                   /\ Len(new) = Len(old)
                   /\ \A i \in 1..Len(old) :
                          IF old[i].id = id THEN OnlyPatched(old[i], new[i], p, c)
                          ELSE new[i] = old[i]
           IN  /\ st.res = "ok"
               /\ changed(cur.tasks, c1.tasks) /\ changed(arc.tasks, a1.tasks)
               /\ c1.projects = cur.projects /\ a1.projects = arc.projects

\* C29, amended: task:update of a task of db.json or archive.json assigns
\* the fields of the patch (dateCompleted with completed) and no other and
\* changes no other task and no project; the tasks of archive.json stay at
\* their places; the tasks of db.json stay, in their order, unless db.json
\* holds more than ARCHIVE_THRESHOLD tasks, when the save may append
\* completed tasks of db.json, the updated one among them, to archive.json;
\* for an id no file holds it fails with 'Task not found' and writes
\* nothing.
C29_UpdateFrame ==
    /\ UnknownTaskFails
    /\ \A id \in ActiveIds \cup ArchiveIds, p \in PatchProjects, c \in PatchCompleted :
           LET st  == taskUpdate(Cur, id, p, c, now)
               cur == Contents(dbFile)
               arc == Contents(archiveFile)
               c1  == Contents(st.dbFile)
               a1  == Contents(st.archiveFile)
               new(t) == IF t.id = id THEN TaskOf(st, id) ELSE t
               moved  == SubSeq(a1.tasks, Len(arc.tasks) + 1, Len(a1.tasks))
               stays(t) == new(t) \notin Range(moved)
           IN  /\ st.res = "ok"
               /\ OnlyPatched(TaskOf(Cur, id), TaskOf(st, id), p, c)
               /\ c1.projects = cur.projects /\ a1.projects = arc.projects
               /\ Len(a1.tasks) >= Len(arc.tasks)
               /\ SubSeq(a1.tasks, 1, Len(arc.tasks)) =
                      [i \in 1..Len(arc.tasks) |-> new(arc.tasks[i])]
               /\ c1.tasks = [i \in 1..Len(SelectSeq(cur.tasks, stays)) |->
                                 new(SelectSeq(cur.tasks, stays)[i])]
               /\ \A t \in Range(moved) :
                      /\ t.completed
                      /\ \E u \in Range(cur.tasks) : new(u) = t
               /\ Len(c1.tasks) + Len(moved) = Len(cur.tasks)
               /\ Len(cur.tasks) <= ARCHIVE_THRESHOLD => moved = <<>>

\* db.json holds more tasks than the threshold, none completed: completing
\* one in another project moves it to archive.json and leaves the other
C29_Witness ==
    LET cur == Contents(dbFile)
        st  == taskUpdate(Cur, 1, 1, "true", now)
    IN  /\ Len(cur.tasks) > ARCHIVE_THRESHOLD
        /\ \A t \in Range(cur.tasks) : ~t.completed /\ t.projectId = inbox
        /\ 1 \in ActiveIds
        /\ st.res = "ok"
        /\ Contents(st.dbFile).tasks = SelectSeq(cur.tasks, LAMBDA t : t.id # 1)
        /\ TaskOf(st, 1) \in Range(Contents(st.archiveFile).tasks)
        /\ TaskOf(st, 1).completed /\ TaskOf(st, 1).projectId = 1

\* C30: task:delete of an id that db.json or archive.json holds takes the
\* task of that id out of the file that holds it and leaves every other task
\* and every project as they are, the tasks of archive.json at their places
\* and, when the tasks that stay in db.json are not more than
\* ARCHIVE_THRESHOLD, both files but for the deleted task exactly as they
\* were; of an id that no file holds it fails with 'Task not found' and
\* writes no file.
C30_DeleteTask ==
    \A id \in MigIds :
        LET st  == taskDelete(Cur, id)
            cur == Contents(dbFile)
            arc == Contents(archiveFile)
            c1  == Contents(st.dbFile)
            a1  == Contents(st.archiveFile)
            other(t) == t.id # id
            curLeft == SelectSeq(cur.tasks, other)
            arcLeft == SelectSeq(arc.tasks, other)
        IN  IF id \in ActiveIds \cup ArchiveIds
            THEN /\ st.res = "ok"
                 /\ Range(c1.tasks) \cup Range(a1.tasks) =
                        Range(curLeft) \cup Range(arcLeft)
                 /\ Len(c1.tasks) + Len(a1.tasks) = Len(curLeft) + Len(arcLeft)
                 /\ Len(curLeft) + Len(arcLeft) = Len(cur.tasks) + Len(arc.tasks) - 1
                 /\ Len(a1.tasks) >= Len(arcLeft)
                 /\ SubSeq(a1.tasks, 1, Len(arcLeft)) = arcLeft
                 /\ Len(curLeft) <= ARCHIVE_THRESHOLD =>
                        c1.tasks = curLeft /\ a1.tasks = arcLeft
                 /\ c1.projects = cur.projects /\ a1.projects = arc.projects
                 /\ st.settings = settings
            ELSE st.res = "Task not found" /\ SameFiles(st)

\* a task in each file: the delete of the archived one leaves db.json as it
\* is and the archive without task, the delete of an id never handed out
\* fails
C30_Witness ==
    LET st == taskDelete(Cur, 1)
    IN  /\ ArchiveIds = {1} /\ ActiveIds = {2}
        /\ st.res = "ok"
        /\ Contents(st.dbFile) = Contents(dbFile)
        /\ st.archiveFile # Absent /\ Contents(st.archiveFile).tasks = <<>>
        /\ Failed(taskDelete(Cur, nextTask))

\* how many times a list holds t
Count(list, t) == Cardinality({i \in 1..Len(list) : list[i] = t})

\* C38: for every save the tasks of db.json and archive.json after the save
\* are, each as many times, the tasks before it; every task that left
\* db.json is completed and is in archive.json; the tasks of db.json that
\* are not completed stay in db.json, in their order.
C38_MigrationConserves ==
    LET m      == loadMerged(Cur)
        after  == loadMerged(SavedAgain(Cur))
        before == m.current.tasks \o m.archive.tasks
        open(t) == ~t.completed
    IN  m.st = "ok" =>
            /\ after.st = "ok"
            /\ \A t \in Range(before) \cup Range(after.tasks) :
                   Count(after.tasks, t) = Count(before, t)
            /\ \A t \in Range(m.current.tasks) \ Range(after.current.tasks) :
                   t.completed /\ t \in Range(after.archive.tasks)
            /\ Range(after.current.tasks) \subseteq Range(m.current.tasks)
            /\ SelectSeq(after.current.tasks, open) = SelectSeq(m.current.tasks, open)
            /\ after.projects = m.projects

\* db.json holds open and completed tasks over the threshold beside an
\* archive: the save moves a completed task and keeps the open ones
C38_Witness ==
    LET m     == loadMerged(Cur)
        after == loadMerged(SavedAgain(Cur))
    IN  /\ m.st = "ok" /\ Len(m.current.tasks) > ARCHIVE_THRESHOLD + 1
        /\ m.archive.tasks # <<>>
        /\ \E t \in Range(m.current.tasks) : ~t.completed
        /\ \E t \in Range(m.current.tasks) : t.completed
        /\ Len(after.archive.tasks) > Len(m.archive.tasks)
        /\ Len(after.current.tasks) > ARCHIVE_THRESHOLD
        /\ \A t \in Range(after.current.tasks) : ~t.completed

\* C34: whenever the keychain holds a key while encryption is enabled, the
\* key is the one derived from the passcode of the enable and the salt of
\* the settings; security:unlock with a passcode stores no other key, and
\* security:unlock by biometrics installs no session key under which db:load
\* fails.
C34_EscrowKeyDecrypts ==
    Enabled =>
        /\ keychain # NoKey => keychain = deriveKey(userSecret, settings)
        /\ \A st \in UnlockOutcomes :
               /\ st.keychain # NoKey => st.keychain = deriveKey(userSecret, settings)
               /\ st.res = "ok:biometrics" => ~Failed(dbLoad(st))

\* a file that is a plain dataset, an envelope of a plain dataset
PlainFile(file) == ~file.enc
OneEnvelope(file) == file.enc /\ ~file.inner.enc

\* C35: after every handler db.json, and archive.json when it exists, are
\* one envelope each when settings.encryptionEnabled is true and plain
\* datasets when it is false.
C35_FilesAgreeWithSettings ==
    /\ IF Enabled THEN OneEnvelope(dbFile) ELSE PlainFile(dbFile)
    /\ archiveFile # Absent =>
           IF Enabled THEN OneEnvelope(archiveFile) ELSE PlainFile(archiveFile)

(* ------------------------- interrupted handlers ----------------------- *)
\* The process may end at any await of a handler; what the handler wrote up
\* to there stays on disk. The next start of the app runs ensureFiles with
\* sessionKey null.
restart(st) == ensureFiles([st EXCEPT !.sessionKey = NoKey])

\* security:enable up to the last write it finished before it was
\* interrupted: the first writeSettings, the keytar call (with the
\* writeSettings of its catch block), the write of db.json; full: what the
\* whole handler leaves
enablePrefix(st, full, useBiometrics, point) ==
    [st EXCEPT
       !.settings = IF point = "settings"
                    THEN [full.settings EXCEPT !.useBiometrics = useBiometrics /\ bioAvail]
                    ELSE full.settings,
       !.keychain = IF point = "settings" THEN @ ELSE full.keychain,
       !.dbFile = IF point = "db" THEN full.dbFile ELSE @]

\* security:disable up to the last write it finished before it was
\* interrupted: the write of db.json, the write of archive.json
disablePrefix(st, full, point) ==
    [st EXCEPT !.dbFile = full.dbFile,
               !.archiveFile = IF point = "archive" THEN full.archiveFile ELSE @]

\* saveCurrentAndMaybeArchive up to the write of db.json
savePrefix(st, full) == [st EXCEPT !.dbFile = full.dbFile]

CrashInEnable ==
    \E passcode \in Secrets, useBiometrics \in BOOLEAN, storeOk \in BOOLEAN,
       point \in {"settings", "keychain", "db"} :
        /\ ~settings.encryptionEnabled
        /\ nextSalt <= NumSalts
        /\ Depth(dbFile) < MaxWrap /\ Depth(archiveFile) < MaxWrap
        /\ LET full == securityEnable(Cur, passcode, useBiometrics, nextSalt, storeOk)
           IN  Apply(restart(enablePrefix(Cur, full, useBiometrics, point)), passcode)
        /\ nextSalt' = nextSalt + 1
        /\ UNCHANGED <<backup, nextTask, nextProj, now>>

CrashInDisable ==
    \E delOk \in BOOLEAN, point \in {"db", "archive"} :
        /\ settings.encryptionEnabled
        /\ sessionKey # NoKey
        /\ LET full == securityDisable(Cur, delOk) IN
               /\ ~Failed(full)
               /\ Apply(restart(disablePrefix(Cur, full, point)), NoPass)
        /\ UNCHANGED <<backup, nextTask, nextProj, nextSalt, now>>

\* task:add or task:update interrupted between the two writes of its save
CrashInSave ==
    \E req \in {"add", "update"}, id \in TaskIds, completed \in {"true", "false"} :
        /\ now <= MaxTime
        /\ req = "add" => nextTask <= MaxTasks
        /\ LET full == IF req = "add" THEN taskAdd(Cur, NoProject, nextTask, now)
                       ELSE taskUpdate(Cur, id, NoProject, completed, now)
           IN  /\ ~Failed(full)
               /\ Apply(restart(savePrefix(Cur, full)), NoPass)
        /\ nextTask' = IF req = "add" THEN nextTask + 1 ELSE nextTask
        /\ now' = now + 1
        /\ UNCHANGED <<backup, nextProj, nextSalt>>

\* SpecCrash: the security and task handlers, each of enable, disable and
\* the save of a task handler possibly interrupted
NextCrash ==
    \/ SecurityEnable
    \/ SecurityDisable
    \/ SecurityUnlock
    \/ SecurityLock
    \/ DbLoad
    \/ TaskAdd({NoProject})
    \/ TaskUpdate(TaskIds, {NoProject}, {"true"})
    \/ CrashInEnable
    \/ CrashInDisable
    \/ CrashInSave

SpecCrash == Init /\ [][NextCrash]_vars

\* what the user gets after a start of the app: unlock with the passcode of
\* the enable when the settings say enabled, then load
AfterRestart ==
    loadMerged(IF Enabled THEN securityUnlock(Cur, userSecret, FALSE, TRUE) ELSE Cur)

\* C37: a step in which security:enable or security:disable is interrupted
\* between two of its writes, taken from a state whose data loads, leads to
\* a state where unlock with the same passcode (when the settings say
\* enabled) followed by load succeeds and returns the data of before.
C37_CrashRecoverable ==
    [][(CrashInEnable \/ CrashInDisable) /\ loadMerged(Cur).st = "ok"
           => /\ AfterRestart'.st = "ok"
              /\ AfterRestart'.current = loadMerged(Cur).current
              /\ AfterRestart'.archive = loadMerged(Cur).archive]_vars

\* C36: a step in which the save of task:add or task:update is interrupted
\* between its two writes keeps every task of db.json and archive.json in
\* one of the two files.
C36_CrashKeepsTasks ==
    [][CrashInSave => (ActiveIds \cup ArchiveIds) \subseteq (ActiveIds \cup ArchiveIds)']_vars

\* C33: when encryption is enabled and db.json is a plain dataset, every
\* successful security:unlock with the passcode of the enable leaves db.json
\* an envelope under the session key, and load then succeeds with the tasks
\* and projects of the plain dataset.
C33_UnlockMigratesPlaintext ==
    (Enabled /\ PlainFile(dbFile)) =>
        \A bioOk \in BOOLEAN, storeOk \in BOOLEAN :
            LET st == securityUnlock(Cur, userSecret, bioOk, storeOk) IN
            ~Failed(st) =>
                /\ st.dbFile.enc /\ AuthOk(st.dbFile, st.sessionKey)
                /\ loadMerged(st).st = "ok"
                /\ loadMerged(st).current.tasks = dbFile.tasks
                /\ loadMerged(st).current.projects = dbFile.projects

(* --------------------------- fields of a task ------------------------- *)
\* titles and tags as the renderer may send them
Titles == {NoTitle, <<" ">>, <<" ", "T">>}
\* no tag, or one tag more than sanitizeTags keeps
TagLists == UNION {[1..n -> {<<" ", "a">>, <<" ">>}] : n \in {0, TagLimit + 1}}
\* Number(priority): NaN, -1.5, 1.5, 4.5
Priorities == {NaN, Num(-3), Num(3), Num(9)}

\* arguments of task:add
TaskRequests ==
    {r \in [title : Titles, projectId : {NoProject, 1},
            hasPriority : BOOLEAN, priority : Priorities,
            hasTags : BOOLEAN, tags : TagLists] :
        /\ ~r.hasPriority => r.priority = NaN
        /\ ~r.hasTags => r.tags = <<>>}

\* arguments of task:update that patch title, priority and tags
Partials ==
    {[title |-> r.title, projectId |-> NoProject, hasPriority |-> r.hasPriority,
      priority |-> r.priority, hasTags |-> r.hasTags, tags |-> r.tags,
      completed |-> "none"] : r \in {q \in TaskRequests : q.projectId = NoProject}}

TaskAddRequest ==
    \E task \in TaskRequests :
        /\ nextTask <= MaxTasks
        /\ now <= MaxTime
        /\ LET st == taskAddRequest(Cur, task, nextTask, now) IN
               /\ Apply(st, NoPass)
               /\ nextTask' = IF Failed(st) THEN nextTask ELSE nextTask + 1
               /\ now' = IF Failed(st) THEN now ELSE now + 1
        /\ UNCHANGED <<backup, nextProj, nextSalt>>

TaskUpdateRequest ==
    \E id \in TaskIds, partial \in Partials :
        /\ Apply(taskUpdateRequest(Cur, id, partial, now), NoPass)
        /\ UNCHANGED <<backup, nextTask, nextProj, nextSalt, now>>

\* SpecFields: task:add and task:update with every field of the model in
\* their arguments, from the default dataset
InitFields == Init /\ ~bioAvail

NextFields ==
    \/ TaskAddRequest
    \/ TaskUpdateRequest
    \/ TaskUpdate(TaskIds, {NoProject}, {"true"})
    \/ DbLoad

SpecFields == InitFields /\ [][NextFields]_vars

\* the tasks of db.json and archive.json
AllTasks == Range(Contents(dbFile).tasks) \cup Range(Contents(archiveFile).tasks)

\* C31: every task of db.json and archive.json has a title that is not
\* empty after trimming.
C31_TitlesNonEmpty == \A t \in AllTasks : trim(t.title) # <<>>

\* C32: every task of db.json and archive.json has a priority among 0, 1, 2,
\* 3 and at most TagLimit tags, each trimmed and not empty; task:add of a
\* request without projectId succeeds and leaves the new task in project
\* inbox, not completed and with dateCompleted null.
C32_TaskFieldsSanitized ==
    /\ \A t \in AllTasks :
           /\ t.priority \in 0..3
           /\ Len(t.tags) <= TagLimit
           /\ \A i \in 1..Len(t.tags) : t.tags[i] # <<>> /\ trim(t.tags[i]) = t.tags[i]
    /\ \A task \in TaskRequests :
           LET st == taskAddRequest(Cur, task, nextTask, now)
               t  == TaskOf(st, nextTask)
           IN  task.projectId = NoProject =>
                   /\ ~Failed(st)
                   /\ t.projectId = inbox /\ ~t.completed /\ t.dateCompleted = NoDate

\* a task whose priority was clamped to 3 and whose tags fill the cap, beside
\* a task that task:add put into the inbox with the default title
C32_Witness ==
    /\ \E t \in AllTasks : t.priority = 3 /\ Len(t.tags) = TagLimit /\ t.title = <<"T">>
    /\ \E t \in AllTasks : /\ t.priority = 0 /\ t.tags = <<>> /\ t.title = Untitled
                           /\ t.projectId = inbox /\ ~t.completed

(* ------------------------- interleaved handlers ----------------------- *)
\* ipcMain runs the handler of a request up to its next await and then
\* serves other requests: the handlers of two requests interleave at their
\* awaits. A call of task:add or task:update goes through readSettings, the
\* two reads of loadAllData and the two writes of saveCurrentAndMaybeArchive.
SetCall(c, call) ==
    /\ calls' = [calls EXCEPT ![c] = call]
    /\ UNCHANGED <<settings, sessionKey, keychain, bioAvail, backup, nextProj,
                   nextSalt, userSecret, aw>>

\* the renderer invokes task:add or task:update({id, completed: true}); the
\* id of the new task stands for the value randId() will return
CallStart ==
    \E c \in Slots, kind \in {"add", "complete"}, id \in TaskIds :
        /\ calls[c].pc = "idle"
        /\ kind = "add" => nextTask <= MaxTasks
        /\ SetCall(c, [NoCall EXCEPT !.pc = "settings", !.kind = kind,
                                     !.id = IF kind = "add" THEN nextTask ELSE id])
        /\ nextTask' = IF kind = "add" THEN nextTask + 1 ELSE nextTask
        /\ UNCHANGED <<dbFile, archiveFile, now>>

\* await readSettings()
CallReadSettings ==
    \E c \in Slots :
        /\ calls[c].pc = "settings"
        /\ SetCall(c, [calls[c] EXCEPT !.pc = "db", !.s = settings])
        /\ UNCHANGED <<dbFile, archiveFile, nextTask, now>>

\* loadAllData: await readJSONFile(dbPath, enc)
CallReadDb ==
    \E c \in Slots :
        /\ calls[c].pc = "db"
        /\ SetCall(c, [calls[c] EXCEPT !.pc = "archive", !.db = dbFile])
        /\ UNCHANGED <<dbFile, archiveFile, nextTask, now>>

\* what the handler of the call does with the files it has read
handled(call, arcFile, date) ==
    LET st == [Cur EXCEPT !.settings = call.s, !.dbFile = call.db,
                          !.archiveFile = arcFile]
    IN  IF call.kind = "add" THEN taskAdd(st, NoProject, call.id, date)
        ELSE taskUpdate(st, call.id, NoProject, "true", date)

\* loadAllData: existsSync(archivePath) and await readJSONFile(archivePath,
\* enc); then, without an await, the change of the task and the migration
\* of saveCurrentAndMaybeArchive up to its first write
CallReadArchive ==
    \E c \in Slots :
        /\ calls[c].pc = "archive"
        /\ now <= MaxTime
        /\ LET out == handled(calls[c], archiveFile, now) IN
               SetCall(c, [calls[c] EXCEPT
                             !.pc = IF Failed(out) THEN "done" ELSE "writeDb",
                             !.arc = archiveFile, !.out = out])
        /\ now' = now + 1
        /\ UNCHANGED <<dbFile, archiveFile, nextTask>>

\* await writeJSONFile(dbPath, current, enc)
CallWriteDb ==
    \E c \in Slots :
        /\ calls[c].pc = "writeDb"
        /\ dbFile' = calls[c].out.dbFile
        /\ SetCall(c, [calls[c] EXCEPT !.pc = "writeArchive"])
        /\ UNCHANGED <<archiveFile, nextTask, now>>

\* the archive the call holds is written when it has tasks or when
\* archive.json exists by now; an archive without tasks is the one
\* loadAllData made up for the missing file
archiveWritten(call, arcFile) ==
    IF call.out.archiveFile # Absent THEN call.out.archiveFile
    ELSE IF arcFile # Absent
         THEN writeJSONFile(Dataset(<<>>, <<>>), call.s.encryptionEnabled, sessionKey)
         ELSE arcFile

\* if (archive.tasks.length > 0 || existsSync(archivePath))
\*     await writeJSONFile(archivePath, archive, enc)
CallWriteArchive ==
    \E c \in Slots :
        /\ calls[c].pc = "writeArchive"
        /\ archiveFile' = archiveWritten(calls[c], archiveFile)
        /\ SetCall(c, [calls[c] EXCEPT !.pc = "done"])
        /\ UNCHANGED <<dbFile, nextTask, now>>

\* the renderer has the result of both requests
CallsReturn ==
    /\ \A c \in Slots : calls[c].pc = "done"
    /\ calls' = [c \in Slots |-> NoCall]
    /\ UNCHANGED <<settings, dbFile, archiveFile, sessionKey, keychain, bioAvail,
                   backup, nextTask, nextProj, nextSalt, now, userSecret, aw>>

\* SpecAsync: two requests at a time, from the default files
NextAsync ==
    \/ CallStart
    \/ CallReadSettings
    \/ CallReadDb
    \/ CallReadArchive
    \/ CallWriteDb
    \/ CallWriteArchive
    \/ CallsReturn

SpecAsync == Init /\ [][NextAsync]_vars

\* the files show what the call did: the task it added, the task it
\* completed as completed
Reflected(call) ==
    LET all == Contents(dbFile).tasks \o Contents(archiveFile).tasks
        i   == findIndex(all, call.id)
    IN  /\ i # 0
        /\ call.kind = "complete" => all[i].completed

\* C39: when the handlers of both requests have returned, db.json and
\* archive.json reflect the change of each request that succeeded.
C39_NoLostUpdate ==
    (\A c \in Slots : calls[c].pc = "done") =>
        \A c \in Slots : ~Failed(calls[c].out) => Reflected(calls[c])

====
